---- MODULE Spec2Model ----
(***************************************************************************)
(* A model of the ADDER codec's frame-reconstruction driver                *)
(* (adder-codec-rs/src/framer/driver.rs): FrameSequence, its per-chunk     *)
(* frame queues and per-pixel trackers, and the operations ingest_event,   *)
(* pop_next_frame, write_frame_bytes and write_multi_frame_bytes.          *)
(***************************************************************************)
EXTENDS Integers, Sequences, FiniteSets, TLC

----------------------------------------------------------------------------
(* Bounds of the model *)

\* ingest_event is called at most MaxEvents times in a behaviour
MaxEvents == 3

\* pop_next_frame / write_frame_bytes start only while frames_written < MaxPops,
\* pop_next_frame_for_chunk is called on a chunk at most MaxPops times
MaxPops == 1

\* PixelNode::integrate is called at most MaxIntegrates times
MaxIntegrates == 5

\* Cube3::set_event and Block3::set_event are called at most MaxSets times
MaxSets == 2

\* encode_block is called at most MaxBlocks times
MaxBlocks == 2

\* encode_event is called at most MaxRecords times
MaxRecords == 2

----------------------------------------------------------------------------
(* Values and configuration *)

\* Option::None in a pixel slot (Some(v) is the number v >= 0) and in Coord.c
None == -1

\* d == 0xFF marks an empty event
EMPTY_D == 255

\* u8::MAX, where the float -> u8 cast of the frame value saturates
U8_MAX == 255

\* FramerBuilder, with a small plane and small time parameters:
\* 3 rows in chunks of 2 rows (a last chunk of 1 row), tpf = 6 / 2 = 3
builder ==
    [plane |-> [width |-> 1, height |-> 3, channels |-> 1],
     chunk_rows |-> 2,
     tps |-> 6,
     output_fps |-> 2,
     ref_interval |-> 2,
     delta_t_max |-> 2]

FramerModes == {"INSTANTANEOUS", "INTEGRATION"}

FramedCameras ==
    {"FramedU8", "FramedU16", "FramedU32", "FramedU64", "FramedF32", "FramedF64"}

EventCameras == {"Dvs", "DavisU8", "Atis", "Asint"}

\* the configurations a behaviour is started with: FramerBuilder's defaults, an
\* event camera, and a framed source of codec version 0
InitConfigs ==
    {[mode |-> "INSTANTANEOUS", codec_version |-> 1, source_camera |-> "FramedU8"],
     [mode |-> "INTEGRATION", codec_version |-> 1, source_camera |-> "Dvs"],
     [mode |-> "INTEGRATION", codec_version |-> 0, source_camera |-> "FramedU8"]}

\* the (d, delta_t) of ingested events: a step within a frame, a step across a
\* frame boundary, an empty event across a frame boundary, a step of no ticks
EventKinds ==
    {[d |-> 1, delta_t |-> 1], [d |-> 1, delta_t |-> 4],
     [d |-> EMPTY_D, delta_t |-> 4], [d |-> 1, delta_t |-> 0]}

tpf == builder.tps \div builder.output_fps

ref_interval == builder.ref_interval

chunk_rows == builder.chunk_rows

num_chunks == (builder.plane.height + chunk_rows - 1) \div chunk_rows

last_chunk_rows == builder.plane.height - (num_chunks - 1) * chunk_rows

Chunks == 0 .. (num_chunks - 1)

RowsOf(k) == IF k = num_chunks - 1 THEN last_chunk_rows ELSE chunk_rows

\* the index set of a chunk's Array3: [local row, column, channel]
Pixels(k) ==
    (0 .. RowsOf(k) - 1) \X (0 .. builder.plane.width - 1)
        \X (0 .. builder.plane.channels - 1)

\* Array3::len()
ArrayLen(array) == Cardinality(DOMAIN array)

EmptyFrame(k) == [array |-> [p \in Pixels(k) |-> None], filled_count |-> 0]

Coords ==
    [y : 0 .. builder.plane.height - 1,
     x : 0 .. builder.plane.width - 1,
     c : IF builder.plane.channels = 1 THEN {None}
         ELSE 0 .. builder.plane.channels - 1]

Events ==
    {[y |-> co.y, x |-> co.x, c |-> co.c, d |-> kind.d, delta_t |-> kind.delta_t] :
        co \in Coords, kind \in EventKinds}

----------------------------------------------------------------------------
(* State *)

VARIABLES
    frames,                         \* Vec<VecDeque<Frame<Option<T>>>>
    frames_written,                 \* i64
    frames_popped,                  \* frames popped from each chunk (not kept by the program)
    frame_idx_offsets,              \* Vec<i64>
    pixel_ts_tracker,               \* Vec<Array3<BigT>>
    last_filled_tracker,            \* Vec<Array3<i64>>
    last_frame_intensity_tracker,   \* Vec<Array3<T>>
    chunk_filled_tracker,           \* Vec<bool>
    mode,                           \* FramerMode
    codec_version,                  \* u8
    source_camera,                  \* SourceCamera
    panicked,                       \* the process has panicked
    last,                           \* the last call and what it returned
    n_events,                       \* number of ingest_event calls so far
    one_per_pixel,                  \* only ingests so far, one per pixel, delta_t >= 1
    true_count,                     \* true returns of ingest_event while one_per_pixel
    tree,                           \* a root PixelNode and its alt-chain, root first
    tree_last,                      \* the last call on the tree and what it returned
    integrated,                     \* intensity integrated into the tree and not yet popped
    n_integrates,                   \* number of integrate calls so far
    tree_panicked,                  \* a call on the tree has panicked
    batch,                          \* the ingest_events_events call in progress
    cube,                           \* a Cube3
    cube_last,                      \* the last call on the cube and what it returned
    n_sets,                         \* number of set_event calls so far
    coder,                          \* a compression model encoder and decoder
    raw                             \* a raw stream being written

vars ==
    <<frames, frames_written, frames_popped, frame_idx_offsets, pixel_ts_tracker,
      last_filled_tracker, last_frame_intensity_tracker, chunk_filled_tracker,
      mode, codec_version, source_camera, panicked, last, n_events,
      one_per_pixel, true_count,
      tree, tree_last, integrated, n_integrates, tree_panicked, batch,
      cube, cube_last, n_sets, coder, raw>>

tree_vars == <<tree, tree_last, integrated, n_integrates, tree_panicked>>

codec_vars == <<cube, cube_last, n_sets, coder, raw>>

framer_vars ==
    <<frames, frames_written, frames_popped, frame_idx_offsets, pixel_ts_tracker,
      last_filled_tracker, last_frame_intensity_tracker, chunk_filled_tracker,
      mode, codec_version, source_camera, panicked, last, n_events,
      one_per_pixel, true_count, batch>>

config == <<mode, codec_version, source_camera>>

----------------------------------------------------------------------------
(* Arithmetic of ingest_event_for_chunk *)

\* i64 division, which truncates toward zero
TruncDiv(a, b) == IF a >= 0 THEN a \div b ELSE -((-a) \div b)

\* (running_ts - 1) as i64 without overflow checks: for running_ts = 0 the u64
\* subtraction wraps to u64::MAX, which the cast turns into -1; for
\* 1 <= running_ts <= 2^63 it is running_ts - 1
SubOneAsI64(running_ts) == IF running_ts = 0 THEN -1 ELSE running_ts - 1

\* the index of the output frame that the running timestamp has reached
FrameIdx(running_ts) == TruncDiv(SubOneAsI64(running_ts), tpf)

\* with overflow checks (a debug build) running_ts - 1 panics at running_ts = 0
SubOverflows(running_ts) == running_ts = 0

IsFramed(camera) == camera \in FramedCameras

\* RoundTs with the source camera left out of the condition
RoundTsAnyCamera(running_ts, version, camera) ==
    IF version > 0 /\ running_ts % ref_interval > 0
    THEN ((running_ts \div ref_interval) + 1) * ref_interval
    ELSE running_ts

\* framed sources with codec_version > 0: round the running timestamp up to the
\* next multiple of ref_interval
RoundTs(running_ts, version, camera) ==
    IF version > 0 /\ IsFramed(camera) /\ running_ts % ref_interval > 0
    THEN ((running_ts \div ref_interval) + 1) * ref_interval
    ELSE running_ts

RECURSIVE Pow2(_)
Pow2(n) == IF n = 0 THEN 1 ELSE 2 * Pow2(n - 1)

\* u8::get_frame_value for SourceType::U8 in the intensity view:
\* (D_SHIFT[d] / delta_t * ref_interval) as u8, a saturating cast; an empty
\* event has intensity 0
GetFrameValue(d, delta_t) ==
    IF d = EMPTY_D THEN 0
    ELSE IF delta_t = 0 THEN U8_MAX
    ELSE LET v == (Pow2(d) * ref_interval) \div delta_t
         IN  IF v > U8_MAX THEN U8_MAX ELSE v

----------------------------------------------------------------------------
(* Frames and frame queues *)

\* SetPx writing the value to every slot of the frame
SetPxAll(frame, px, val) ==
    [array |-> [p \in DOMAIN frame.array |-> val],
     filled_count |-> frame.filled_count + 1]

\* SetPx without the increment of filled_count
SetPxNoCount(frame, px, val) ==
    IF frame.array[px] = None
    THEN [array |-> [frame.array EXCEPT ![px] = val],
          filled_count |-> frame.filled_count]
    ELSE frame

\* the first write of a slot sets it and counts it; a set slot is left alone
SetPx(frame, px, val) ==
    IF frame.array[px] = None
    THEN [array |-> [frame.array EXCEPT ![px] = val],
          filled_count |-> frame.filled_count + 1]
    ELSE frame

\* FramePos without the frames already written
FramePosAbsolute(i, written) == i + 1

\* position in the queue (from 0) of the frame that follows frame index i
FramePos(i, written) == i - written + 1

\* Grow appending a single frame however far the index reached is: a mutant
GrowByOne(k, q, offset, reached) ==
    LET a == reached - offset
    IN  IF a > 0
        THEN [q |-> Append(q, EmptyFrame(k)), offset |-> offset + a]
        ELSE [q |-> q, offset |-> offset]

\* grow the queue up to the frame index reached
Grow(k, q, offset, reached) ==
    LET a == reached - offset
    IN  IF a > 0
        THEN [q |-> q \o [j \in 1 .. a |-> EmptyFrame(k)], offset |-> offset + a]
        ELSE [q |-> q, offset |-> offset]

\* FillFrames starting one frame early and writing over slots that are set
RECURSIVE FillFramesOverwrite(_, _, _, _, _, _)
FillFramesOverwrite(q, i, reached, written, px, val) ==
    IF i > reached THEN q
    ELSE LET pos == i - written
         IN  IF pos >= 0 /\ pos < Len(q)
             THEN FillFramesOverwrite(
                      [q EXCEPT ![pos + 1] =
                          [array |-> [@.array EXCEPT ![px] = val],
                           filled_count |-> @.filled_count + 1]],
                      i + 1, reached, written, px, val)
             ELSE FillFramesOverwrite(q, i + 1, reached, written, px, val)

\* FillFrames filling the pixel in the last frame of the range only
FillFramesLastOnly(q, i, reached, written, px, val) ==
    LET pos == FramePos(reached - 1, written)
    IN  IF i < reached /\ pos >= 0 /\ pos < Len(q)
        THEN [q EXCEPT ![pos + 1] = SetPx(@, px, val)]
        ELSE q

\* for i in prev..reached: fill the pixel in the frame at FramePos(i), when that
\* frame has not been popped
RECURSIVE FillFrames(_, _, _, _, _, _)
FillFrames(q, i, reached, written, px, val) ==
    IF i >= reached THEN q
    ELSE LET pos == FramePos(i, written)
         IN  IF pos >= 0 /\ pos < Len(q)
             THEN FillFrames([q EXCEPT ![pos + 1] = SetPx(@, px, val)],
                             i + 1, reached, written, px, val)
             ELSE FillFrames(q, i + 1, reached, written, px, val)

\* the loop indexes a queue of queue_len frames past its end
FillOutOfRange(queue_len, prev, reached, written) ==
    \E i \in prev .. (reached - 1) : FramePos(i, written) >= queue_len

\* number of frames of the range that are skipped because they were popped
SkippedFrames(prev, reached, written) ==
    Cardinality({i \in prev .. (reached - 1) : FramePos(i, written) < 0})

\* ChunkFilled as soon as one slot of the front frame is set
ChunkFilledAny(q) == q[1].filled_count >= 1

\* frame_chunk[0].filled_count == frame_chunk[0].array.len()
ChunkFilled(q) == q[1].filled_count = ArrayLen(q[1].array)

\* ingest_event_for_chunk taking the frame value of an empty event too: a mutant
IngestChunkEmptyResets(k, q, running_ts, offset, last_filled, intensity, written, px, d, delta_t, version, camera) ==
    LET ts1 == running_ts + delta_t
        reached == FrameIdx(ts1)
        crossed == reached > last_filled
        intensity1 ==
            IF crossed THEN GetFrameValue(d, delta_t) ELSE intensity
        last_filled1 == IF crossed THEN reached ELSE last_filled
        grown == IF crossed THEN Grow(k, q, offset, reached)
                 ELSE [q |-> q, offset |-> offset]
        q1 == IF crossed
              THEN FillFrames(grown.q, last_filled, reached, written, px, intensity1)
              ELSE q
    IN  [q |-> q1,
         running_ts |-> RoundTs(ts1, version, camera),
         offset |-> grown.offset,
         last_filled |-> last_filled1,
         intensity |-> intensity1,
         crossed |-> crossed,
         skipped |-> IF crossed THEN SkippedFrames(last_filled, reached, written) ELSE 0,
         filled |-> ChunkFilled(q1)]

\* ingest_event_for_chunk on the queue and the trackers of one pixel
ingest_event_for_chunk(k, q, running_ts, offset, last_filled, intensity, written, px, d, delta_t, version, camera) ==
    LET ts1 == running_ts + delta_t
        reached == FrameIdx(ts1)
        crossed == reached > last_filled
        intensity1 ==
            IF crossed /\ d # EMPTY_D THEN GetFrameValue(d, delta_t) ELSE intensity
        last_filled1 == IF crossed THEN reached ELSE last_filled
        grown == IF crossed THEN Grow(k, q, offset, reached)
                 ELSE [q |-> q, offset |-> offset]
        q1 == IF crossed
              THEN FillFrames(grown.q, last_filled, reached, written, px, intensity1)
              ELSE q
    IN  [q |-> q1,
         running_ts |-> RoundTs(ts1, version, camera),
         offset |-> grown.offset,
         last_filled |-> last_filled1,
         intensity |-> intensity1,
         crossed |-> crossed,
         skipped |-> IF crossed THEN SkippedFrames(last_filled, reached, written) ELSE 0,
         filled |-> ChunkFilled(q1)]

\* is_frame_0_filled
is_frame_0_filled == \A k \in Chunks : chunk_filled_tracker[k]

\* is_frame_filled reading the newest frame of each queue
IsFrameFilledBack(fr, frame_idx, k) ==
    IF \A j \in Chunks :
           fr[j][Len(fr[j])].filled_count = ArrayLen(fr[j][Len(fr[j])].array)
    THEN "Ok(true)" ELSE "Ok(false)"

\* is_frame_filled(frame_idx), chunk by chunk from chunk k on
RECURSIVE IsFrameFilledFrom(_, _, _)
IsFrameFilledFrom(fr, frame_idx, k) ==
    IF k >= num_chunks THEN "Ok(true)"
    ELSE IF Len(fr[k]) <= frame_idx THEN "InvalidIndex"
    ELSE IF fr[k][frame_idx + 1].filled_count = ArrayLen(fr[k][1].array)
         THEN IsFrameFilledFrom(fr, frame_idx, k + 1)
    ELSE IF fr[k][frame_idx + 1].filled_count > ArrayLen(fr[k][1].array)
         THEN "BadFillCount"
    ELSE "Ok(false)"

is_frame_filled(fr, frame_idx) == IsFrameFilledFrom(fr, frame_idx, 0)

\* px_at_current(y, x, c): the slot in the front frame of the pixel's chunk
px_at_current(fr, y, x, c) ==
    LET chunk_num == y \div chunk_rows
        local_row == y - (chunk_num * chunk_rows)
    IN  fr[chunk_num][1].array[<<local_row, x, c>>]

\* px_at_frame(y, x, c, frame_idx): the bound tested is self.frames.len(), the
\* number of chunks; indexing the chunk's VecDeque past its end panics
px_at_frame(fr, y, x, c, frame_idx) ==
    LET chunk_num == y \div chunk_rows
        local_row == y - (chunk_num * chunk_rows)
    IN  IF frame_idx < Cardinality(DOMAIN fr)
        THEN IF frame_idx < Len(fr[chunk_num])
             THEN [res |-> "Ok",
                   val |-> fr[chunk_num][frame_idx + 1].array[<<local_row, x, c>>]]
             ELSE [res |-> "panic", val |-> None]
        ELSE [res |-> "InvalidIndex", val |-> None]

\* get_frames_len: self.frames.len(), the length of the outer Vec
get_frames_len(fr) == Cardinality(DOMAIN fr)

\* VecDeque::rotate_left(1)
RotateLeft(q) == SubSeq(q, 2, Len(q)) \o SubSeq(q, 1, 1)

\* pop_next_frame_for_chunk without the replenishing of an emptied queue
PopNoReplenish(q, offset) ==
    [q |-> SubSeq(q, 2, Len(q)), offset |-> offset, array |-> q[1].array]

\* pop_next_frame_for_chunk replenishing an emptied queue without moving the
\* chunk's frame_idx_offset
PopKeepsOffset(q, offset) ==
    LET rest == SubSeq(q, 2, Len(q))
    IN  IF rest = <<>>
        THEN [q |-> <<[array |-> [p \in DOMAIN q[1].array |-> None],
                       filled_count |-> 0]>>,
              offset |-> offset,
              array |-> q[1].array]
        ELSE [q |-> rest, offset |-> offset, array |-> q[1].array]

\* pop_next_frame_for_chunk: rotate, pop the back, replenish an emptied queue
pop_next_frame_for_chunk(q, offset) ==
    LET rotated == RotateLeft(q)
        a == rotated[Len(rotated)]
        rest == SubSeq(rotated, 1, Len(rotated) - 1)
    IN  IF rest = <<>>
        THEN [q |-> <<[array |-> [p \in DOMAIN a.array |-> None],
                       filled_count |-> 0]>>,
              offset |-> offset + 1,
              array |-> a.array]
        ELSE [q |-> rest, offset |-> offset, array |-> a.array]

\* the loop over the chunks in pop_next_frame and write_frame_bytes
PopAllChunks(fr, offsets) ==
    LET r == [k \in Chunks |-> pop_next_frame_for_chunk(fr[k], offsets[k])]
    IN  [frames |-> [k \in Chunks |-> r[k].q],
         offsets |-> [k \in Chunks |-> r[k].offset],
         out |-> [k \in Chunks |-> r[k].array]]

\* what write_frame_bytes serializes: T::default() for a slot that is None
Serialized(array) == [p \in DOMAIN array |-> IF array[p] = None THEN 0 ELSE array[p]]

\* write_multi_frame_bytes with `if` in the place of `while`
WriteMultiOnce(fr, offsets, written, frame_count) ==
    IF is_frame_filled(fr, 0) = "Ok(true)"
    THEN LET p == PopAllChunks(fr, offsets)
         IN  [frames |-> p.frames, offsets |-> p.offsets, written |-> written + 1,
              frame_count |-> frame_count + 1, ok |-> TRUE]
    ELSE [frames |-> fr, offsets |-> offsets, written |-> written,
          frame_count |-> frame_count, ok |-> TRUE]

\* write_multi_frame_bytes: while is_frame_filled(0)? { write_frame_bytes }
RECURSIVE WriteMulti(_, _, _, _)
WriteMulti(fr, offsets, written, frame_count) ==
    LET filled == is_frame_filled(fr, 0)
    IN  IF filled = "Ok(true)"
        THEN LET p == PopAllChunks(fr, offsets)
             IN  WriteMulti(p.frames, p.offsets, written + 1, frame_count + 1)
        ELSE [frames |-> fr, offsets |-> offsets, written |-> written,
              frame_count |-> frame_count, ok |-> filled = "Ok(false)"]

----------------------------------------------------------------------------
(* The event pixel tree (src/transcoder/event_pixel_tree.rs): a PixelNode and  *)
(* its chain of alt nodes, as the sequence root, alt, alt.alt, ...             *)
(* Intensities and times are f32 in the source; they are exact here, on        *)
(* inputs whose time is a multiple of the intensity, so that every product     *)
(* time * prop is an integer. The rounding of f32 is not modelled.             *)

D_MAX == 8

D_SHIFT == <<1, 2, 4, 8, 16, 32, 64, 128, 256>>

\* start intensities of PixelNode::new
StartIntensities == {1, 128}

\* the (intensity, time) arguments of integrate
TreeInputs ==
    {[intensity |-> 1, time |-> 2], [intensity |-> 3, time |-> 3],
     [intensity |-> 16, time |-> 16], [intensity |-> 128, time |-> 128]}

\* best_event: None
NoEvent == [d |-> None, delta_t |-> None]

\* log2_raw(x) as D with every node starting at d = 0
Log2Zero(x) == 0

\* fast_math::log2_raw(x) as D: the integer part of the base-2 logarithm
RECURSIVE Log2Floor(_)
Log2Floor(x) == IF x < 2 THEN 0 ELSE 1 + Log2Floor(x \div 2)

\* PixelNode::new
NewNode(start_intensity) ==
    [d |-> Log2Floor(start_intensity), integration |-> 0, delta_t |-> 0,
     best_event |-> NoEvent]

\* f32 as DeltaT: a saturating cast
AsDeltaT(v) == IF v < 0 THEN 0 ELSE v

\* self.state.d += 1 left out
NextDSame(d) == d

\* self.state.d += 1
NextD(d) == d + 1

\* integrate_main: the node after the call, whether it emitted an event, and
\* the new alt node with the intensity and time left over for it, if any;
\* D_SHIFT[d] is out of bounds for d > D_MAX
integrate_main(node, intensity, time) ==
    IF node.d > D_MAX
    THEN [panic |-> TRUE, node |-> node, emitted |-> FALSE, spawn |-> FALSE,
          intensity |-> 0, time |-> 0]
    ELSE IF node.integration + intensity >= D_SHIFT[node.d + 1]
    THEN LET time_prop == (time * (D_SHIFT[node.d + 1] - node.integration)) \div intensity
             left == intensity - (D_SHIFT[node.d + 1] - node.integration)
         IN  [panic |-> FALSE,
              node |-> [d |-> NextD(node.d),
                        integration |-> node.integration + intensity,
                        delta_t |-> node.delta_t + time,
                        best_event |-> [d |-> node.d,
                                        delta_t |-> AsDeltaT(node.delta_t + time_prop)]],
              emitted |-> TRUE,
              spawn |-> left > 0,
              intensity |-> left,
              time |-> time - time_prop]
    ELSE [panic |-> FALSE,
          node |-> [node EXCEPT !.integration = @ + intensity, !.delta_t = @ + time],
          emitted |-> FALSE, spawn |-> FALSE, intensity |-> 0, time |-> 0]

\* integrate with the new alt left as PixelNode::new made it: a mutant
IntegrateDropsRest(chain, intensity, time) ==
    LET r == integrate_main(chain[1], intensity, time)
    IN  IF r.panic THEN [panic |-> TRUE, chain |-> chain]
        ELSE IF r.spawn
        THEN [panic |-> FALSE, chain |-> <<r.node, NewNode(intensity)>>]
        ELSE IF Len(chain) > 1
        THEN LET a == integrate_main(chain[2], intensity, time)
             IN  [panic |-> a.panic,
                  chain |-> <<r.node, a.node>> \o SubSeq(chain, 3, Len(chain))]
        ELSE [panic |-> FALSE, chain |-> <<r.node>>]

\* integrate calling integrate on an existing alt, down the whole chain
RECURSIVE IntegrateAltRecurses(_, _, _)
IntegrateAltRecurses(chain, intensity, time) ==
    LET r == integrate_main(chain[1], intensity, time)
    IN  IF r.panic THEN [panic |-> TRUE, chain |-> chain]
        ELSE IF r.spawn
        THEN LET below ==
                     IntegrateAltRecurses(<<NewNode(intensity)>>, r.intensity, r.time)
             IN  [panic |-> below.panic, chain |-> <<r.node>> \o below.chain]
        ELSE IF Len(chain) > 1
        THEN LET below == IntegrateAltRecurses(Tail(chain), intensity, time)
             IN  [panic |-> below.panic, chain |-> <<r.node>> \o below.chain]
        ELSE [panic |-> FALSE, chain |-> <<r.node>>]

\* integrate: on a new alt the rest is integrated recursively; otherwise an
\* existing alt gets integrate_main only, and what that returns is dropped
RECURSIVE integrate(_, _, _)
integrate(chain, intensity, time) ==
    LET r == integrate_main(chain[1], intensity, time)
    IN  IF r.panic THEN [panic |-> TRUE, chain |-> chain]
        ELSE IF r.spawn
        THEN LET below == integrate(<<NewNode(intensity)>>, r.intensity, r.time)
             IN  [panic |-> below.panic, chain |-> <<r.node>> \o below.chain]
        ELSE IF Len(chain) > 1
        THEN LET a == integrate_main(chain[2], intensity, time)
             IN  [panic |-> a.panic,
                  chain |-> <<r.node, a.node>> \o SubSeq(chain, 3, Len(chain))]
        ELSE [panic |-> FALSE, chain |-> <<r.node>>]

\* PixelState
StateOf(node) == [d |-> node.d, integration |-> node.integration, delta_t |-> node.delta_t]

\* pop_and_reset_state returning the state of the node it is called on
PopRootState(chain) ==
    [panic |-> \E i \in 1 .. Len(chain) : chain[i].best_event = NoEvent,
     events |-> [i \in 1 .. Len(chain) |-> chain[i].best_event],
     state |-> StateOf(chain[1])]

\* pop_and_reset_state: the events from the root down, and the state of the
\* deepest node; panics at a node without best_event
RECURSIVE pop_and_reset_state(_)
pop_and_reset_state(chain) ==
    IF chain[1].best_event = NoEvent
    THEN [panic |-> TRUE, events |-> <<>>, state |-> StateOf(chain[1])]
    ELSE IF Len(chain) = 1
    THEN [panic |-> FALSE, events |-> <<chain[1].best_event>>, state |-> StateOf(chain[1])]
    ELSE LET res == pop_and_reset_state(Tail(chain))
         IN  [panic |-> res.panic,
              events |-> <<chain[1].best_event>> \o res.events,
              state |-> res.state]

\* what a call on the tree did
TreeCall(op, events, before, total) ==
    [op |-> op, events |-> events, before |-> before, total |-> total]

\* PixelNode::new(start_intensity)
TreeNew(start_intensity) ==
    /\ tree = <<NewNode(start_intensity)>>
    /\ tree_last = TreeCall("new", <<>>, <<>>, 0)
    /\ integrated = 0
    /\ n_integrates = 0
    /\ tree_panicked = FALSE

----------------------------------------------------------------------------
(* Blocks and cubes (adder-codec-rs/src/codec/compressed/mod4.rs): a Block3 *)
(* is a square of optional coordless events, a Cube3 is one vector of      *)
(* blocks and one open-index map for each of the three colour channels.    *)
(* A Vec is a sequence: element i of the source is element i + 1 here.     *)

\* the side of a block, scaled down
BLOCK_SIZE_BIG == 2

\* the number of slots of a block and of entries of an index map
BlockArea == BLOCK_SIZE_BIG * BLOCK_SIZE_BIG

BlockIdxs == 0 .. (BlockArea - 1)

\* the colour channels of a cube
Channels == 0 .. 2

\* EventCoordless::from(event): the event without its coordinates
EventCoordless(event) == [d |-> event.d, delta_t |-> event.delta_t]

\* Block3::new: every slot is None
Block3_new == [events |-> [i \in BlockIdxs |-> NoEvent]]

\* Block3::set_event, with an occupied slot overwritten: a mutant
Block3_set_event_overwrite(block, event, idx) ==
    [res |-> IF block.events[idx] # NoEvent THEN "AlreadyExists" ELSE "Ok",
     idx |-> idx,
     block |-> [block EXCEPT !.events[idx] = EventCoordless(event)]]

\* Block3::set_event
Block3_set_event(block, event, idx) ==
    IF block.events[idx] # NoEvent
    THEN [res |-> "AlreadyExists", idx |-> idx, block |-> block]
    ELSE [res |-> "Ok", idx |-> idx,
          block |-> [block EXCEPT !.events[idx] = EventCoordless(event)]]

\* Cube3::new
Cube3_new(cube_idx_y, cube_idx_x, cube_idx_c) ==
    [blocks |-> [c \in Channels |-> <<Block3_new>>],
     cube_idx_y |-> cube_idx_y,
     cube_idx_x |-> cube_idx_x,
     cube_idx_c |-> cube_idx_c,
     block_idx_map |-> [c \in Channels |-> [i \in BlockIdxs |-> 0]]]

\* Cube3::event_coord_to_block_idx. The subtractions are on usize: where one
\* underflows, a build with overflow checks panics and a build without them
\* wraps; the wrapped sum is the index of a slot exactly when the sum of the
\* unwrapped differences is one
event_coord_to_block_idx(self, event) ==
    LET idx_y == event.y - (self.cube_idx_y \div BLOCK_SIZE_BIG)
        idx_x == event.x - (self.cube_idx_x \div BLOCK_SIZE_BIG)
    IN  [underflow |-> idx_y < 0 \/ idx_x < 0,
         idx |-> (idx_y * BLOCK_SIZE_BIG) + idx_x,
         c |-> IF event.c = None THEN 0 ELSE event.c]

\* set_event_for_channel leaving the open index where it was
SetEventForChannelNoAdvance(block_vec, block_idx_map, event, idx) ==
    IF idx \notin BlockIdxs \/ block_idx_map[idx] >= Len(block_vec)
    THEN [res |-> "panic", idx |-> idx, block_vec |-> block_vec,
          block_idx_map |-> block_idx_map]
    ELSE LET r == Block3_set_event(block_vec[block_idx_map[idx] + 1], event, idx)
         IN  [res |-> r.res, idx |-> idx,
              block_vec |-> [block_vec EXCEPT ![block_idx_map[idx] + 1] = r.block],
              block_idx_map |-> block_idx_map]

\* set_event_for_channel: block_idx_map[idx] and block_vec[block_idx_map[idx]]
\* panic when the index is out of bounds
set_event_for_channel(block_vec, block_idx_map, event, idx) ==
    IF idx \notin BlockIdxs
    THEN [res |-> "panic", idx |-> idx, block_vec |-> block_vec,
          block_idx_map |-> block_idx_map]
    ELSE LET pushed == IF block_idx_map[idx] > Len(block_vec)
                       THEN Append(block_vec, Block3_new) ELSE block_vec
         IN  IF block_idx_map[idx] >= Len(pushed)
             THEN [res |-> "panic", idx |-> idx, block_vec |-> pushed,
                   block_idx_map |-> block_idx_map]
             ELSE LET r == Block3_set_event(pushed[block_idx_map[idx] + 1],
                                            event, idx)
                  IN  IF r.res = "Ok"
                      THEN [res |-> "Ok", idx |-> idx,
                            block_vec |-> [pushed EXCEPT
                                             ![block_idx_map[idx] + 1] = r.block],
                            block_idx_map |->
                                [block_idx_map EXCEPT ![idx] = @ + 1]]
                      ELSE [res |-> r.res, idx |-> idx, block_vec |-> pushed,
                            block_idx_map |-> block_idx_map]

\* Cube3::set_event; overflow_checks tells the build
Cube3_set_event(self, event, overflow_checks) ==
    LET at == event_coord_to_block_idx(self, event)
    IN  IF (at.underflow /\ overflow_checks) \/ at.c \notin Channels
        THEN [res |-> "panic", idx |-> at.idx, cube |-> self]
        ELSE LET r == set_event_for_channel(self.blocks[at.c],
                          self.block_idx_map[at.c], event, at.idx)
             IN  [res |-> r.res, idx |-> at.idx,
                  cube |-> [self EXCEPT !.blocks[at.c] = r.block_vec,
                                        !.block_idx_map[at.c] = r.block_idx_map]]

\* the cubes that are constructed: the cube of the origin and its neighbours
CubeOrigins == {<<0, 0>>, <<BLOCK_SIZE_BIG, 0>>, <<0, BLOCK_SIZE_BIG>>}

\* the events set into a cube
CubeEvents ==
    [y : 0 .. ((2 * BLOCK_SIZE_BIG) - 1), x : 0 .. ((2 * BLOCK_SIZE_BIG) - 1),
     c : {None} \cup (0 .. 3), d : {7}, delta_t : {100, 200}]

----------------------------------------------------------------------------
(* The compression model (CompressionModelEncoder, CompressionModelDecoder) *)
(* as the benchmark benches/block_2.rs drives it. Its code is not among the *)
(* sources: it is modelled from the specification, at the level of the     *)
(* symbols handed to the arithmetic coder.                                  *)

\* the place of slot i on its anti-diagonal of the block
ZigZagKey(i) ==
    LET y == i \div BLOCK_SIZE_BIG
        x == i % BLOCK_SIZE_BIG
    IN  ((y + x) * BLOCK_SIZE_BIG) + (IF (y + x) % 2 = 1 THEN y ELSE x)

\* ZIGZAG_ORDER: the slots of a block in zig-zag order
ZIGZAG_ORDER ==
    [r \in 1 .. BlockArea |->
        CHOOSE i \in BlockIdxs :
            Cardinality({j \in BlockIdxs : ZigZagKey(j) < ZigZagKey(i)}) = r - 1]

\* the end-of-stream symbol of flush_encoder
EOF_SYMBOL == -1

\* the symbols of one slot: absent, or present with D and delta_t
SlotSymbols(slot) ==
    IF slot = NoEvent THEN <<0>> ELSE <<1, slot.d, slot.delta_t>>

RECURSIVE BlockSymbols(_, _)
BlockSymbols(block, r) ==
    IF r > BlockArea THEN <<>>
    ELSE SlotSymbols(block.events[ZIGZAG_ORDER[r]]) \o BlockSymbols(block, r + 1)

\* CompressionModelEncoder::new / CompressionModelDecoder::new
CompressionModelNew(delta_t_max, d_max) ==
    [delta_t_max |-> delta_t_max, d_max |-> d_max, symbols |-> <<>>,
     flushed |-> FALSE]

\* encode_block: the symbols of the block, in zig-zag order, follow the stream
encode_block(enc, block) ==
    [enc EXCEPT !.symbols = @ \o BlockSymbols(block, 1)]

\* flush_encoder: the stream is terminated
flush_encoder(enc) ==
    [enc EXCEPT !.symbols = Append(@, EOF_SYMBOL), !.flushed = TRUE]

\* the decoder's parse of the slots r .. BlockArea from the symbols: the block
\* decoded so far and the symbols that remain; ok is false at the end of the
\* stream and on a symbol outside the decoder's model
RECURSIVE ParseSlots(_, _, _, _)
ParseSlots(dec, symbols, block, r) ==
    IF r > BlockArea THEN [ok |-> TRUE, block |-> block, symbols |-> symbols]
    ELSE IF symbols = <<>> \/ Head(symbols) = EOF_SYMBOL
    THEN [ok |-> FALSE, block |-> block, symbols |-> symbols]
    ELSE IF Head(symbols) = 0
    THEN ParseSlots(dec, Tail(symbols),
                    [block EXCEPT !.events[ZIGZAG_ORDER[r]] = NoEvent], r + 1)
    ELSE IF Len(symbols) < 3 \/ symbols[2] > dec.d_max
                             \/ symbols[3] > dec.delta_t_max
    THEN [ok |-> FALSE, block |-> block, symbols |-> symbols]
    ELSE ParseSlots(dec, SubSeq(symbols, 4, Len(symbols)),
                    [block EXCEPT !.events[ZIGZAG_ORDER[r]] =
                        [d |-> symbols[2], delta_t |-> symbols[3]]], r + 1)

\* decode_block with an absent slot left as it was in the given block: a mutant
DecodeBlockKeepAbsent(dec, block) ==
    LET p == ParseSlots(dec, dec.symbols, block, 1)
    IN  [ok |-> p.ok,
         block |-> [events |-> [i \in BlockIdxs |->
                                   IF p.block.events[i] = NoEvent
                                   THEN block.events[i]
                                   ELSE p.block.events[i]]],
         dec |-> [dec EXCEPT !.symbols = p.symbols]]

\* decode_block: the next block of the stream, written over the given block
decode_block(dec, block) ==
    LET p == ParseSlots(dec, dec.symbols, block, 1)
    IN  [ok |-> p.ok, block |-> p.block,
         dec |-> [dec EXCEPT !.symbols = p.symbols]]

\* the maxima of the benchmark's models, scaled down, and a smaller pair
CoderParams == {<<200, 7>>, <<100, 7>>}

\* no decoder has been made
NoDecoder == CompressionModelNew(None, None)

----------------------------------------------------------------------------
(* The raw codec (RawStream, the implementation of Codec in src/lib.rs).    *)
(* Its code is not among the sources: it is modelled from the              *)
(* specification and from the tests of tests/integration_tests.rs.         *)

\* the n bytes of v, big-endian
RECURSIVE BigEndian(_, _)
BigEndian(v, n) ==
    IF n = 0 THEN <<>> ELSE Append(BigEndian(v \div 256, n - 1), v % 256)

\* the fixed-size record of an event: an EventSingle for one channel, an
\* Event with its channel otherwise
RawRecord(header, event) ==
    BigEndian(event.x, 2) \o BigEndian(event.y, 2)
      \o (IF header.channels = 1 THEN <<>> ELSE <<event.c>>)
      \o <<event.d>> \o BigEndian(event.delta_t, 4)

\* the event fits the header: coordinates in the plane, the channel one of the
\* declared channels (none for a single channel), delta_t within delta_t_max
RawEventFits(header, event) ==
    /\ event.x < header.width
    /\ event.y < header.height
    /\ IF header.channels = 1 THEN event.c = None
       ELSE event.c # None /\ event.c < header.channels
    /\ event.delta_t <= header.delta_t_max

\* encode_event with the check of delta_t left out: a mutant
EncodeEventAnyDeltaT(stream, event) ==
    IF RawEventFits([stream.header EXCEPT !.delta_t_max = event.delta_t], event)
    THEN [res |-> "Ok",
          stream |-> [stream EXCEPT
                        !.bytes = @ \o RawRecord(stream.header, event)]]
    ELSE [res |-> "panic", stream |-> stream]

\* RawStream::encode_event: the record is written whole, or the call panics
encode_event(stream, event) ==
    IF RawEventFits(stream.header, event)
    THEN [res |-> "Ok",
          stream |-> [stream EXCEPT
                        !.bytes = @ \o RawRecord(stream.header, event)]]
    ELSE [res |-> "panic", stream |-> stream]

\* the headers of encode_header, with a small plane
RawHeaders ==
    [width : {2}, height : {3}, channels : {1, 3}, delta_t_max : {200}]

\* the events handed to encode_event
RawEvents ==
    [y : 0 .. 3, x : 0 .. 2, c : {None, 1, 3}, d : {5},
     delta_t : {100, 200, 300}]

\* Cube3::new for the tile at origin
CubeNew(origin) ==
    /\ cube = Cube3_new(origin[1], origin[2], 0)
    /\ cube_last = [op |-> "new", ret |-> "Ok", idx |-> 0]
    /\ n_sets = 0

\* CompressionModelEncoder::new, and no decoder yet
CoderNew(params) ==
    coder = [enc |-> CompressionModelNew(params[1], params[2]),
             encoded |-> <<>>, dec |-> NoDecoder, decoded |-> 0, ok |-> TRUE]

\* a raw stream after encode_header
RawNew(header) ==
    raw = [header |-> header, bytes |-> <<>>, res |-> "Ok", n |-> 0]

\* a cube, a compression model and a raw stream that are left alone
CodecIdle ==
    /\ CubeNew(<<0, 0>>)
    /\ CoderNew(<<200, 7>>)
    /\ RawNew([width |-> 2, height |-> 3, channels |-> 1, delta_t_max |-> 200])

----------------------------------------------------------------------------
(* Operations *)

Call(op, ret, n, crossed, skipped) ==
    [op |-> op, ret |-> ret, n |-> n, crossed |-> crossed, skipped |-> skipped,
     after_true |-> last.op = "ingest_event" /\ last.ret]

\* the queues and trackers of the sequence, as one value
FrameState ==
    [frames |-> frames,
     frame_idx_offsets |-> frame_idx_offsets,
     pixel_ts_tracker |-> pixel_ts_tracker,
     last_filled_tracker |-> last_filled_tracker,
     last_frame_intensity_tracker |-> last_frame_intensity_tracker,
     chunk_filled_tracker |-> chunk_filled_tracker]

\* FrameSequence::new
FramerNew ==
    /\ frames = [k \in Chunks |-> <<EmptyFrame(k)>>]
    /\ frames_written = 0
    /\ frames_popped = [k \in Chunks |-> 0]
    /\ frame_idx_offsets = [k \in Chunks |-> 0]
    /\ pixel_ts_tracker = [k \in Chunks |-> [p \in Pixels(k) |-> 0]]
    /\ last_filled_tracker = [k \in Chunks |-> [p \in Pixels(k) |-> -1]]
    /\ last_frame_intensity_tracker = [k \in Chunks |-> [p \in Pixels(k) |-> 0]]
    /\ chunk_filled_tracker = [k \in Chunks |-> FALSE]
    /\ \E cfg \in InitConfigs :
           /\ mode = cfg.mode
           /\ codec_version = cfg.codec_version
           /\ source_camera = cfg.source_camera
    /\ panicked = FALSE
    /\ last = [op |-> "new", ret |-> FALSE, n |-> 0, crossed |-> FALSE,
               skipped |-> 0, after_true |-> FALSE]
    /\ n_events = 0
    /\ one_per_pixel = TRUE
    /\ true_count = 0

\* a frame sequence, and a pixel tree that is left alone
Init ==
    /\ FramerNew
    /\ TreeNew(1)
    /\ CodecIdle
    /\ batch = [active |-> FALSE, groups |-> [k \in Chunks |-> <<>>],
                ref |-> FrameState, ref_rev |-> FrameState]

\* the chunk, the chunk-local pixel and the result of ingest_event_for_chunk
ChunkNum(event) == event.y \div chunk_rows

LocalPx(event) ==
    <<event.y - (ChunkNum(event) * chunk_rows), event.x,
      IF event.c = None THEN 0 ELSE event.c>>

Ingested(event) ==
    LET k == ChunkNum(event)
        px == LocalPx(event)
    IN  ingest_event_for_chunk(k, frames[k], pixel_ts_tracker[k][px],
            frame_idx_offsets[k], last_filled_tracker[k][px],
            last_frame_intensity_tracker[k][px], frames_written, px,
            event.d, event.delta_t, codec_version, source_camera)

\* the ways ingest_event panics: running_ts - 1 with overflow checks, an index
\* past the end of the queue, the debug assertion on the last-filled index
IngestPanics(event) ==
    LET k == ChunkNum(event)
        ts1 == pixel_ts_tracker[k][LocalPx(event)] + event.delta_t
        prev == last_filled_tracker[k][LocalPx(event)]
        reached == FrameIdx(ts1)
        grown_len == IF reached > frame_idx_offsets[k]
                     THEN Len(frames[k]) + (reached - frame_idx_offsets[k])
                     ELSE Len(frames[k])
    IN  \/ SubOverflows(ts1)
        \/ reached > prev /\ FillOutOfRange(grown_len, prev, reached, frames_written)
        \/ reached <= prev /\ prev < 0

\* running_ts - 1 overflows only where overflow checks are compiled in; without
\* them the call goes on (IngestEvent), with them it panics (IngestEventPanic)
IngestMustPanic(event) ==
    LET k == ChunkNum(event)
        ts1 == pixel_ts_tracker[k][LocalPx(event)] + event.delta_t
        prev == last_filled_tracker[k][LocalPx(event)]
        reached == FrameIdx(ts1)
        grown_len == IF reached > frame_idx_offsets[k]
                     THEN Len(frames[k]) + (reached - frame_idx_offsets[k])
                     ELSE Len(frames[k])
    IN  reached > prev /\ FillOutOfRange(grown_len, prev, reached, frames_written)

\* ingest_event with the filled flag of every chunk computed anew: a mutant
IngestEventRefreshFlags(event) ==
    LET k == ChunkNum(event)
        px == LocalPx(event)
        r == Ingested(event)
        filled == [j \in Chunks |->
                      IF j = k THEN r.filled ELSE ChunkFilled(frames[j])]
        ret == \A j \in Chunks : filled[j]
    IN  /\ ~panicked
        /\ n_events < MaxEvents
        /\ ~IngestMustPanic(event)
        /\ frames' = [frames EXCEPT ![k] = r.q]
        /\ pixel_ts_tracker' = [pixel_ts_tracker EXCEPT ![k][px] = r.running_ts]
        /\ frame_idx_offsets' = [frame_idx_offsets EXCEPT ![k] = r.offset]
        /\ last_filled_tracker' = [last_filled_tracker EXCEPT ![k][px] = r.last_filled]
        /\ last_frame_intensity_tracker' =
               [last_frame_intensity_tracker EXCEPT ![k][px] = r.intensity]
        /\ chunk_filled_tracker' = filled
        /\ last' = Call("ingest_event", ret, 0, r.crossed, r.skipped)
        /\ n_events' = n_events + 1
        /\ one_per_pixel' =
               (/\ one_per_pixel
                /\ event.delta_t >= 1
                /\ pixel_ts_tracker[k][px] = 0
                /\ last_filled_tracker[k][px] = -1)
        /\ true_count' = IF one_per_pixel' /\ ret THEN true_count + 1
                          ELSE IF one_per_pixel' THEN true_count ELSE 0
        /\ UNCHANGED <<frames_written, frames_popped, config, panicked, tree_vars,
                       batch, codec_vars>>

\* ingest_event, returning last'.ret
IngestEvent(event) ==
    LET k == ChunkNum(event)
        px == LocalPx(event)
        r == Ingested(event)
        filled == [chunk_filled_tracker EXCEPT ![k] = r.filled]
        ret == \A j \in Chunks : filled[j]
    IN  /\ ~panicked
        /\ n_events < MaxEvents
        /\ ~IngestMustPanic(event)
        /\ frames' = [frames EXCEPT ![k] = r.q]
        /\ pixel_ts_tracker' = [pixel_ts_tracker EXCEPT ![k][px] = r.running_ts]
        /\ frame_idx_offsets' = [frame_idx_offsets EXCEPT ![k] = r.offset]
        /\ last_filled_tracker' = [last_filled_tracker EXCEPT ![k][px] = r.last_filled]
        /\ last_frame_intensity_tracker' =
               [last_frame_intensity_tracker EXCEPT ![k][px] = r.intensity]
        /\ chunk_filled_tracker' = filled
        /\ last' = Call("ingest_event", ret, 0, r.crossed, r.skipped)
        /\ n_events' = n_events + 1
        /\ one_per_pixel' =
               (/\ one_per_pixel
                /\ event.delta_t >= 1
                /\ pixel_ts_tracker[k][px] = 0
                /\ last_filled_tracker[k][px] = -1)
        /\ true_count' = IF one_per_pixel' /\ ret THEN true_count + 1
                          ELSE IF one_per_pixel' THEN true_count ELSE 0
        /\ UNCHANGED <<frames_written, frames_popped, config, panicked, tree_vars,
                       batch, codec_vars>>

\* ingest_event panics and the process ends
IngestEventPanic(event) ==
    /\ ~panicked
    /\ n_events < MaxEvents
    /\ IngestPanics(event)
    /\ panicked' = TRUE
    /\ last' = Call("panic", FALSE, 0, FALSE, 0)
    /\ n_events' = n_events + 1
    /\ one_per_pixel' = FALSE
    /\ true_count' = 0
    /\ UNCHANGED <<frames, frames_written, frames_popped, frame_idx_offsets,
                   pixel_ts_tracker,
                   last_filled_tracker, last_frame_intensity_tracker,
                   chunk_filled_tracker, config, tree_vars, batch, codec_vars>>

\* what pop_next_frame and write_frame_bytes do to the queues
PopFrames(op) ==
    LET p == PopAllChunks(frames, frame_idx_offsets)
    IN  /\ ~panicked
        /\ frames_written < MaxPops
        /\ frames' = p.frames
        /\ frame_idx_offsets' = p.offsets
        /\ chunk_filled_tracker' = [k \in Chunks |-> FALSE]
        /\ frames_written' = frames_written + 1
        /\ frames_popped' = [k \in Chunks |-> frames_popped[k] + 1]
        /\ last' = Call(op, FALSE, 0, FALSE, 0)
        /\ one_per_pixel' = FALSE
        /\ true_count' = 0
        /\ UNCHANGED <<pixel_ts_tracker, last_filled_tracker,
                       last_frame_intensity_tracker, config, panicked, n_events,
                       tree_vars, batch, codec_vars>>

PopNextFrame == PopFrames("pop_next_frame")

WriteFrameBytes == PopFrames("write_frame_bytes")

WriteMultiFrameBytes ==
    LET w == WriteMulti(frames, frame_idx_offsets, frames_written, 0)
    IN  /\ ~panicked
        /\ frames_written < MaxPops
        /\ frames' = w.frames
        /\ frame_idx_offsets' = w.offsets
        /\ chunk_filled_tracker' =
               IF w.frame_count > 0 THEN [k \in Chunks |-> FALSE]
               ELSE chunk_filled_tracker
        /\ frames_written' = w.written
        /\ frames_popped' = [k \in Chunks |-> frames_popped[k] + w.frame_count]
        /\ last' = Call("write_multi_frame_bytes", FALSE, w.frame_count, FALSE, 0)
        /\ one_per_pixel' = FALSE
        /\ true_count' = 0
        /\ UNCHANGED <<pixel_ts_tracker, last_filled_tracker,
                       last_frame_intensity_tracker, config, panicked, n_events,
                       tree_vars, batch, codec_vars>>

Next ==
    \/ \E event \in Events : IngestEvent(event)
    \/ \E event \in Events : IngestEventPanic(event)
    \/ PopNextFrame
    \/ WriteFrameBytes
    \/ WriteMultiFrameBytes

Spec == Init /\ [][Next]_vars

\* pop_next_frame_for_chunk(chunk_num) called by the user: the chunk's queue
\* loses its front frame, frames_written stays as it is
PopNextFrameForChunk(chunk_num) ==
    LET r == pop_next_frame_for_chunk(frames[chunk_num], frame_idx_offsets[chunk_num])
    IN  /\ ~panicked
        /\ frames_popped[chunk_num] < MaxPops
        /\ frames' = [frames EXCEPT ![chunk_num] = r.q]
        /\ frame_idx_offsets' = [frame_idx_offsets EXCEPT ![chunk_num] = r.offset]
        /\ chunk_filled_tracker' = [chunk_filled_tracker EXCEPT ![chunk_num] = FALSE]
        /\ frames_popped' = [frames_popped EXCEPT ![chunk_num] = @ + 1]
        /\ last' = Call("pop_next_frame_for_chunk", FALSE, 0, FALSE, 0)
        /\ one_per_pixel' = FALSE
        /\ true_count' = 0
        /\ UNCHANGED <<frames_written, pixel_ts_tracker, last_filled_tracker,
                       last_frame_intensity_tracker, config, panicked, n_events,
                       tree_vars, batch, codec_vars>>

\* the sequence of FramerBuilder's defaults
PopInit == Init /\ mode = "INSTANTANEOUS"

\* the events ingested between pops of single chunks: a step within a frame
\* and a step across a frame boundary
PopEvents == {event \in Events : event.delta_t >= 1 /\ event.d # EMPTY_D}

\* every public operation on the queues, pop_next_frame_for_chunk included
PopNext ==
    \/ \E event \in PopEvents : IngestEvent(event)
    \/ \E event \in PopEvents : IngestEventPanic(event)
    \/ PopNextFrame
    \/ WriteFrameBytes
    \/ WriteMultiFrameBytes
    \/ \E chunk_num \in Chunks : PopNextFrameForChunk(chunk_num)

SpecPop == PopInit /\ [][PopNext]_vars

----------------------------------------------------------------------------
(* Operations on the pixel tree *)

\* PixelNode::integrate
TreeIntegrate(input) ==
    LET r == integrate(tree, input.intensity, input.time)
    IN  /\ ~tree_panicked
        /\ n_integrates < MaxIntegrates
        /\ ~r.panic
        /\ tree' = r.chain
        /\ tree_last' = TreeCall("integrate", <<>>, tree, integrated + input.intensity)
        /\ integrated' = integrated + input.intensity
        /\ n_integrates' = n_integrates + 1
        /\ UNCHANGED <<tree_panicked, framer_vars, codec_vars>>

\* PixelNode::integrate indexing D_SHIFT out of bounds
TreeIntegratePanic(input) ==
    /\ ~tree_panicked
    /\ n_integrates < MaxIntegrates
    /\ integrate(tree, input.intensity, input.time).panic
    /\ tree_panicked' = TRUE
    /\ tree_last' = TreeCall("integrate_panic", <<>>, tree, integrated)
    /\ n_integrates' = n_integrates + 1
    /\ UNCHANGED <<tree, integrated, framer_vars, codec_vars>>

\* PixelNode::pop_best_events
TreePop ==
    LET res == pop_and_reset_state(tree)
    IN  /\ ~tree_panicked
        /\ ~res.panic
        /\ tree' = <<[d |-> res.state.d, integration |-> res.state.integration,
                      delta_t |-> res.state.delta_t, best_event |-> NoEvent]>>
        /\ tree_last' = TreeCall("pop_best_events", res.events, tree, integrated)
        /\ integrated' = res.state.integration
        /\ UNCHANGED <<n_integrates, tree_panicked, framer_vars, codec_vars>>

\* PixelNode::pop_best_events on a chain with a node without best_event
TreePopPanic ==
    /\ ~tree_panicked
    /\ pop_and_reset_state(tree).panic
    /\ tree_panicked' = TRUE
    /\ tree_last' = TreeCall("pop_panic", <<>>, tree, integrated)
    /\ UNCHANGED <<tree, integrated, n_integrates, framer_vars, codec_vars>>

TreeInit ==
    /\ FramerNew
    /\ CodecIdle
    /\ mode = "INSTANTANEOUS"
    /\ batch = [active |-> FALSE, groups |-> [k \in Chunks |-> <<>>],
                ref |-> FrameState, ref_rev |-> FrameState]
    /\ \E start_intensity \in StartIntensities : TreeNew(start_intensity)

TreeNext ==
    \/ \E input \in TreeInputs : TreeIntegrate(input)
    \/ \E input \in TreeInputs : TreeIntegratePanic(input)
    \/ TreePop
    \/ TreePopPanic

SpecTree == TreeInit /\ [][TreeNext]_vars

----------------------------------------------------------------------------
(* ingest_events_events: one worker per chunk, each ingesting its group *)

\* the events handed to ingest_events_events: delta_t >= 1, d not empty
BatchEvents == {event \in Events : event.delta_t >= 1 /\ event.d # EMPTY_D}

\* one group per chunk, each of events of that chunk, MaxEvents in all at most
BatchGroups ==
    {g \in [Chunks -> UNION {[1 .. n -> BatchEvents] : n \in 0 .. MaxEvents}] :
        /\ \A k \in Chunks : \A i \in 1 .. Len(g[k]) : ChunkNum(g[k][i]) = k
        /\ Len(g[0]) + Len(g[1]) >= 1
        /\ Len(g[0]) + Len(g[1]) <= MaxEvents}

\* ingest_event on the state st
ingest_event(st, event) ==
    LET k == ChunkNum(event)
        px == LocalPx(event)
        r == ingest_event_for_chunk(k, st.frames[k], st.pixel_ts_tracker[k][px],
                 st.frame_idx_offsets[k], st.last_filled_tracker[k][px],
                 st.last_frame_intensity_tracker[k][px], frames_written, px,
                 event.d, event.delta_t, codec_version, source_camera)
    IN  [frames |-> [st.frames EXCEPT ![k] = r.q],
         frame_idx_offsets |-> [st.frame_idx_offsets EXCEPT ![k] = r.offset],
         pixel_ts_tracker |-> [st.pixel_ts_tracker EXCEPT ![k][px] = r.running_ts],
         last_filled_tracker |->
             [st.last_filled_tracker EXCEPT ![k][px] = r.last_filled],
         last_frame_intensity_tracker |->
             [st.last_frame_intensity_tracker EXCEPT ![k][px] = r.intensity],
         chunk_filled_tracker |-> [st.chunk_filled_tracker EXCEPT ![k] = r.filled]]

\* ingest_event on each event of a list, in order
RECURSIVE IngestAll(_, _)
IngestAll(st, events) ==
    IF events = <<>> THEN st
    ELSE IngestAll(ingest_event(st, Head(events)), Tail(events))

\* the call begins: the groups are handed to the workers
BeginBatch(g) ==
    /\ ~panicked
    /\ ~batch.active
    /\ n_events + Len(g[0]) + Len(g[1]) <= MaxEvents
    /\ batch' = [active |-> TRUE, groups |-> g,
                 ref |-> IngestAll(FrameState, g[0] \o g[1]),
                 ref_rev |-> IngestAll(FrameState, g[1] \o g[0])]
    /\ n_events' = n_events + Len(g[0]) + Len(g[1])
    /\ last' = Call("begin", FALSE, 0, FALSE, 0)
    /\ one_per_pixel' = FALSE
    /\ true_count' = 0
    /\ UNCHANGED <<frames, frames_written, frames_popped, frame_idx_offsets,
                   pixel_ts_tracker,
                   last_filled_tracker, last_frame_intensity_tracker,
                   chunk_filled_tracker, config, panicked, tree_vars,
                   codec_vars>>

\* the worker of chunk k ingests the next event of its group
WorkerStep(k) ==
    /\ batch.active
    /\ batch.groups[k] # <<>>
    /\ LET event == Head(batch.groups[k])
           px == LocalPx(event)
           r == ingest_event_for_chunk(k, frames[k], pixel_ts_tracker[k][px],
                    frame_idx_offsets[k], last_filled_tracker[k][px],
                    last_frame_intensity_tracker[k][px], frames_written, px,
                    event.d, event.delta_t, codec_version, source_camera)
       IN  /\ frames' = [frames EXCEPT ![k] = r.q]
           /\ chunk_filled_tracker' = [chunk_filled_tracker EXCEPT ![k] = r.filled]
           /\ pixel_ts_tracker' = [pixel_ts_tracker EXCEPT ![k][px] = r.running_ts]
           /\ frame_idx_offsets' = [frame_idx_offsets EXCEPT ![k] = r.offset]
           /\ last_filled_tracker' =
                  [last_filled_tracker EXCEPT ![k][px] = r.last_filled]
           /\ last_frame_intensity_tracker' =
                  [last_frame_intensity_tracker EXCEPT ![k][px] = r.intensity]
    /\ batch' = [batch EXCEPT !.groups[k] = Tail(@)]
    /\ UNCHANGED <<frames_written, frames_popped, config, panicked, last, n_events,
                   one_per_pixel, true_count, tree_vars, codec_vars>>

\* every worker is done: the call returns is_frame_0_filled()
FinishBatch ==
    /\ batch.active
    /\ \A k \in Chunks : batch.groups[k] = <<>>
    /\ batch' = [batch EXCEPT !.active = FALSE]
    /\ last' = Call("ingest_events_events", is_frame_0_filled, 0, FALSE, 0)
    /\ UNCHANGED <<frames, frames_written, frames_popped, frame_idx_offsets,
                   pixel_ts_tracker,
                   last_filled_tracker, last_frame_intensity_tracker,
                   chunk_filled_tracker, config, panicked, n_events,
                   one_per_pixel, true_count, tree_vars, codec_vars>>

\* pop_next_frame between two calls
BatchPop == ~batch.active /\ PopNextFrame

BatchInit == Init /\ mode = "INSTANTANEOUS"

BatchNext ==
    \/ \E g \in BatchGroups : BeginBatch(g)
    \/ \E k \in Chunks : WorkerStep(k)
    \/ FinishBatch
    \/ BatchPop

SpecBatch == BatchInit /\ [][BatchNext]_vars

----------------------------------------------------------------------------
(* Operations on a cube and its blocks *)

\* a frame sequence, a pixel tree and a batch that are left alone
RestIdle ==
    /\ FramerNew
    /\ mode = "INSTANTANEOUS"
    /\ TreeNew(1)
    /\ batch = [active |-> FALSE, groups |-> [k \in Chunks |-> <<>>],
                ref |-> FrameState, ref_rev |-> FrameState]

\* Cube3::set_event returns; the build matters only where a subtraction
\* underflows
CubeSetEvent(event, overflow_checks) ==
    /\ cube_last.ret # "panic"
    /\ n_sets < MaxSets
    /\ overflow_checks \/ event_coord_to_block_idx(cube, event).underflow
    /\ LET r == Cube3_set_event(cube, event, overflow_checks)
       IN  /\ r.res # "panic"
           /\ cube' = r.cube
           /\ cube_last' = [op |-> "set_event", ret |-> r.res, idx |-> r.idx]
    /\ n_sets' = n_sets + 1
    /\ UNCHANGED <<coder, raw, framer_vars, tree_vars>>

\* Cube3::set_event panics
CubeSetEventPanic(event, overflow_checks) ==
    /\ cube_last.ret # "panic"
    /\ n_sets < MaxSets
    /\ overflow_checks \/ event_coord_to_block_idx(cube, event).underflow
    /\ LET r == Cube3_set_event(cube, event, overflow_checks)
       IN  /\ r.res = "panic"
           /\ cube_last' = [op |-> "set_event", ret |-> "panic", idx |-> r.idx]
    /\ n_sets' = n_sets + 1
    /\ UNCHANGED <<cube, coder, raw, framer_vars, tree_vars>>

CubeInit ==
    /\ RestIdle
    /\ \E origin \in CubeOrigins : CubeNew(origin)
    /\ CoderNew(<<200, 7>>)
    /\ RawNew([width |-> 2, height |-> 3, channels |-> 1, delta_t_max |-> 200])

CubeNext ==
    \/ \E event \in CubeEvents, overflow_checks \in BOOLEAN :
           CubeSetEvent(event, overflow_checks)
    \/ \E event \in CubeEvents, overflow_checks \in BOOLEAN :
           CubeSetEventPanic(event, overflow_checks)

SpecCube == CubeInit /\ [][CubeNext]_vars

\* Block3::set_event on block k of channel c of the cube, called from within
\* the module
BlockSetEvent(c, k, event, idx) ==
    /\ cube_last.ret # "panic"
    /\ n_sets < MaxSets
    /\ k \in 1 .. Len(cube.blocks[c])
    /\ LET r == Block3_set_event(cube.blocks[c][k], event, idx)
       IN  /\ cube' = [cube EXCEPT !.blocks[c][k] = r.block]
           /\ cube_last' = [op |-> "block_set_event", ret |-> r.res,
                            idx |-> r.idx]
    /\ n_sets' = n_sets + 1
    /\ UNCHANGED <<coder, raw, framer_vars, tree_vars>>

\* the events set into a block directly: the slot is an argument of the call
BlockEvents == {event \in CubeEvents : event.y = 0 /\ event.x = 0 /\ event.c = 0}

BlockInit ==
    /\ RestIdle
    /\ CubeNew(<<0, 0>>)
    /\ CoderNew(<<200, 7>>)
    /\ RawNew([width |-> 2, height |-> 3, channels |-> 1, delta_t_max |-> 200])

\* the events set into the cube of the origin: events of its tile, of any
\* channel
TileEvents ==
    {event \in CubeEvents : event.y < BLOCK_SIZE_BIG /\ event.x < BLOCK_SIZE_BIG}

BlockNext ==
    \/ \E event \in TileEvents : CubeSetEvent(event, TRUE)
    \/ \E event \in TileEvents : CubeSetEventPanic(event, TRUE)
    \/ \E c \in Channels, k \in 1 .. MaxSets, event \in BlockEvents,
          idx \in BlockIdxs :
           BlockSetEvent(c, k, event, idx)

SpecBlock == BlockInit /\ [][BlockNext]_vars

----------------------------------------------------------------------------
(* Operations of the compression model, on the first red block of the cube *)

\* the events of the benchmark: red events of the tile
CoderEvents == {event \in CubeEvents : /\ event.c = 0
                                       /\ event.y < BLOCK_SIZE_BIG
                                       /\ event.x < BLOCK_SIZE_BIG}

\* model.encode_block(&mut cube.blocks_r[0])
EncodeBlock ==
    /\ ~coder.enc.flushed
    /\ Len(coder.encoded) < MaxBlocks
    /\ coder' = [coder EXCEPT !.enc = encode_block(@, cube.blocks[0][1]),
                              !.encoded = Append(@, cube.blocks[0][1])]
    /\ UNCHANGED <<cube, cube_last, n_sets, raw, framer_vars, tree_vars>>

\* model.flush_encoder()
FlushEncoder ==
    /\ ~coder.enc.flushed
    /\ coder' = [coder EXCEPT !.enc = flush_encoder(@)]
    /\ UNCHANGED <<cube, cube_last, n_sets, raw, framer_vars, tree_vars>>

\* CompressionModelDecoder::new on the bytes written
NewDecoder(params) ==
    /\ coder.enc.flushed
    /\ coder.dec = NoDecoder
    /\ coder' = [coder EXCEPT
                   !.dec = [CompressionModelNew(params[1], params[2])
                              EXCEPT !.symbols = coder.enc.symbols]]
    /\ UNCHANGED <<cube, cube_last, n_sets, raw, framer_vars, tree_vars>>

\* context_model.decode_block(&mut cube.blocks_r[0]); once the decoder has
\* lost the stream, what it writes is not determined
DecodeBlock ==
    /\ coder.dec # NoDecoder
    /\ coder.ok
    /\ LET r == decode_block(coder.dec, cube.blocks[0][1])
       IN  /\ coder' = [coder EXCEPT !.dec = r.dec, !.decoded = @ + 1,
                                     !.ok = r.ok]
           /\ \E block \in IF r.ok THEN {r.block} ELSE {r.block, Block3_new} :
                  cube' = [cube EXCEPT !.blocks[0][1] = block]
    /\ UNCHANGED <<cube_last, n_sets, raw, framer_vars, tree_vars>>

CoderInit ==
    /\ RestIdle
    /\ CubeNew(<<0, 0>>)
    /\ CoderNew(<<200, 7>>)
    /\ RawNew([width |-> 2, height |-> 3, channels |-> 1, delta_t_max |-> 200])

CoderNext ==
    \/ \E event \in CoderEvents : CubeSetEvent(event, TRUE)
    \/ EncodeBlock
    \/ FlushEncoder
    \/ \E params \in CoderParams : NewDecoder(params)
    \/ DecodeBlock

SpecCoder == CoderInit /\ [][CoderNext]_vars

----------------------------------------------------------------------------
(* Operations of the raw codec *)

\* encode_event returns
RawEncodeEvent(event) ==
    /\ raw.res # "panic"
    /\ raw.n < MaxRecords
    /\ LET r == encode_event(raw, event)
       IN  /\ r.res # "panic"
           /\ raw' = [r.stream EXCEPT !.res = r.res, !.n = @ + 1]
    /\ UNCHANGED <<cube, cube_last, n_sets, coder, framer_vars, tree_vars>>

\* encode_event panics
RawEncodeEventPanic(event) ==
    /\ raw.res # "panic"
    /\ raw.n < MaxRecords
    /\ LET r == encode_event(raw, event)
       IN  /\ r.res = "panic"
           /\ raw' = [r.stream EXCEPT !.res = r.res, !.n = @ + 1]
    /\ UNCHANGED <<cube, cube_last, n_sets, coder, framer_vars, tree_vars>>

RawInit ==
    /\ RestIdle
    /\ CubeNew(<<0, 0>>)
    /\ CoderNew(<<200, 7>>)
    /\ \E header \in RawHeaders : RawNew(header)

RawNext ==
    \/ \E event \in RawEvents : RawEncodeEvent(event)
    \/ \E event \in RawEvents : RawEncodeEventPanic(event)

SpecRaw == RawInit /\ [][RawNext]_vars

----------------------------------------------------------------------------
(* Properties of the frame driver *)

\* the front (oldest queued) frame of chunk k is fully filled
FrontFilled(k) == frames[k][1].filled_count = ArrayLen(frames[k][1].array)

AllFrontFilled == \A k \in Chunks : FrontFilled(k)

\* every slot of the front frame of every chunk is set
AllFrontSet == \A k \in Chunks : \A p \in Pixels(k) : frames[k][1].array[p] # None

\* number of slots of a frame that are Some
SomeCount(frame) == Cardinality({p \in DOMAIN frame.array : frame.array[p] # None})

\* C1: ingest_event returns true if and only if, after the event has been
\* applied, the front frame of every chunk is fully filled, after any sequence
\* of ingest_event, pop_next_frame and write_frame_bytes calls.
C1_ReturnsFrontFilled ==
    last.op = "ingest_event" => (last.ret <=> AllFrontFilled)

\* C2: from a fresh FrameSequence, with one event per pixel slot (delta_t >= 1),
\* ingest_event returns true exactly once, on the event that fills the last empty
\* slot of frame 0; is_frame_0_filled() is false before that event and true
\* after it.
C2_TrueOnceOnFilling ==
    one_per_pixel =>
        /\ is_frame_0_filled <=> AllFrontSet
        /\ true_count = (IF AllFrontSet THEN 1 ELSE 0)
        /\ last.op = "ingest_event" => (last.ret <=> AllFrontSet)

C2_Witness ==
    /\ one_per_pixel
    /\ AllFrontSet
    /\ last.op = "ingest_event"
    /\ last.ret
    /\ true_count = 1
    /\ is_frame_0_filled

\* C3: after a single event at (x, y, c) with delta_t >= 1 is ingested into a
\* fresh FrameSequence, px_at_current(y, x, c) is Some(the mapped intensity of the
\* event) and every other pixel slot of the front frame is None.
C3_SingleEventSetsOnePixel ==
    [][\A event \in Events :
          (last.op = "new" /\ event.delta_t >= 1 /\ IngestEvent(event)) =>
              \A co \in Coords :
                  LET ch(c) == IF c = None THEN 0 ELSE c
                      slot == px_at_current(frames', co.y, co.x, ch(co.c))
                  IN  IF <<co.y, co.x, ch(co.c)>> = <<event.y, event.x, ch(event.c)>>
                      THEN slot = GetFrameValue(event.d, event.delta_t)
                      ELSE slot = None]_vars

C3_Witness ==
    /\ one_per_pixel
    /\ n_events = 1
    /\ \E co \in Coords : px_at_current(frames, co.y, co.x, 0) > 0
    /\ Cardinality({co \in Coords : px_at_current(frames, co.y, co.x, 0) = None})
           = Cardinality(Coords) - 1

\* C4: whenever ingest_event returns true, a write_multi_frame_bytes that follows
\* it immediately writes at least one frame.
C4_TrueThenWriteMultiWrites ==
    (last.op = "write_multi_frame_bytes" /\ last.after_true) => last.n >= 1

C4_Witness ==
    last.op = "write_multi_frame_bytes" /\ last.after_true /\ last.n >= 1

\* C5: each queued frame's filled_count is the number of its slots that are Some
\* and is at most the frame's slot count, so is_frame_filled never returns
\* BadFillCount.
C5_FilledCountIsSomeCount ==
    \A k \in Chunks :
        \A i \in 1 .. Len(frames[k]) :
            /\ frames[k][i].filled_count = SomeCount(frames[k][i])
            /\ frames[k][i].filled_count <= ArrayLen(frames[k][i].array)
            /\ is_frame_filled(frames, i - 1) # "BadFillCount"

C5_Witness ==
    /\ \E k \in Chunks : \E i \in 1 .. Len(frames[k]) :
           /\ frames[k][i].filled_count > 0
           /\ frames[k][i].filled_count < ArrayLen(frames[k][i].array)
    /\ \E k \in Chunks : \E i \in 1 .. Len(frames[k]) :
           frames[k][i].filled_count = ArrayLen(frames[k][i].array)

\* the pixel's running timestamp once delta_t is added, and the frame it falls in
TsAfter(event) == pixel_ts_tracker[ChunkNum(event)][LocalPx(event)] + event.delta_t

TargetFrame(event) == (TsAfter(event) - 1) \div tpf

\* the slot of the event's pixel in the frame the event falls in is queued and set
TargetSlotSet(event) ==
    LET k == ChunkNum(event)
        pos == TargetFrame(event) - frames_written + 1
    IN  /\ TsAfter(event) >= 1
        /\ pos >= 1
        /\ pos <= Len(frames[k])
        /\ frames[k][pos].array[LocalPx(event)] # None

C7_IntegrationAccumulates ==
    [][\A event \in Events :
          LET k == ChunkNum(event)
              pos == TargetFrame(event) - frames_written + 1
              px == LocalPx(event)
          IN  (/\ mode = "INTEGRATION"
               /\ IngestEvent(event)
               /\ TargetSlotSet(event)
               /\ event.d # EMPTY_D
               /\ GetFrameValue(event.d, event.delta_t) > 0
               /\ frames[k][pos].array[px] < U8_MAX)
              => frames'[k][pos].array[px] # frames[k][pos].array[px]]_vars

\* C8: every chunk's frame queue holds at least one frame in every reachable
\* state: pop_next_frame_for_chunk returns the front frame, filled or not, and
\* appends a fresh empty frame of the same shape when the pop emptied the queue.
C8_QueueNeverEmpty ==
    \A k \in Chunks :
        /\ Len(frames[k]) >= 1
        /\ LET r == pop_next_frame_for_chunk(frames[k], frame_idx_offsets[k])
           IN  /\ r.array = frames[k][1].array
               /\ Len(r.q) >= 1
               /\ Len(frames[k]) = 1 => r.q = <<EmptyFrame(k)>>
               /\ Len(frames[k]) > 1 => r.q = Tail(frames[k])

C8_Witness ==
    /\ last.op = "pop_next_frame"
    /\ n_events >= 1
    /\ \E k \in Chunks :
           /\ frames[k] = <<EmptyFrame(k)>>
           /\ frame_idx_offsets[k] = frames_written
           /\ \E p \in Pixels(k) : last_filled_tracker[k][p] < 0

\* the frames (last-filled, reached] of the event begin with a popped frame
RangeIncludesPopped(event) ==
    /\ TsAfter(event) >= 1
    /\ TargetFrame(event) > last_filled_tracker[ChunkNum(event)][LocalPx(event)]
    /\ last_filled_tracker[ChunkNum(event)][LocalPx(event)] + 1 < frames_written

\* C9: after frames were popped before they were filled, an event whose frame
\* range includes popped frames does not fail: nothing is written for a popped
\* frame, the frames of the range that are still queued are written, and delta_t
\* is still added to the pixel's running timestamp.
C9_PoppedFramesSkipped ==
    [][\A event \in Events :
          LET k == ChunkNum(event)
              px == LocalPx(event)
              reached == TargetFrame(event)
              queued == reached - frames_written + 1
          IN  (~panicked /\ n_events < MaxEvents /\ RangeIncludesPopped(event)) =>
                  /\ ~IngestPanics(event)
                  /\ IngestEvent(event) =>
                         /\ pixel_ts_tracker'[k][px] >= TsAfter(event)
                         /\ pixel_ts_tracker'[k][px] < TsAfter(event) + ref_interval
                         /\ last_filled_tracker'[k][px] = reached
                         /\ Len(frames'[k]) =
                                (IF queued > Len(frames[k]) THEN queued
                                 ELSE Len(frames[k]))
                         /\ \A i \in 1 .. Len(frames'[k]) : \A p \in Pixels(k) :
                                LET old == IF i <= Len(frames[k])
                                           THEN frames[k][i].array[p] ELSE None
                                IN  frames'[k][i].array[p] =
                                        (IF p = px /\ i <= queued /\ old = None
                                         THEN last_frame_intensity_tracker'[k][px]
                                         ELSE old)]_vars

C9_Witness ==
    /\ last.op = "ingest_event"
    /\ last.skipped > 0
    /\ n_events = 1
    /\ \E k \in Chunks : \E p \in Pixels(k) :
           /\ last_filled_tracker[k][p] >= frames_written
           /\ frames[k][last_filled_tracker[k][p] - frames_written + 1].array[p] # None

\* C10: for a framed source camera with codec_version > 0 the running timestamp
\* after an ingested event is the smallest multiple of ref_interval that is
\* >= previous timestamp + delta_t; for DVS/DAVIS/ATIS/ASINT sources or
\* codec_version 0 it is previous timestamp + delta_t.
C10_TimestampRounding ==
    [][\A event \in Events :
          (last'.op = "ingest_event" /\ IngestEvent(event)) =>
              LET ts == pixel_ts_tracker'[ChunkNum(event)][LocalPx(event)]
              IN  IF codec_version > 0 /\ source_camera \in FramedCameras
                  THEN /\ ts % ref_interval = 0
                       /\ ts >= TsAfter(event)
                       /\ ts - ref_interval < TsAfter(event)
                  ELSE ts = TsAfter(event)]_vars

C10_Witness ==
    /\ codec_version > 0
    /\ source_camera \in FramedCameras
    /\ n_events = 1
    /\ \E k \in Chunks : \E p \in Pixels(k) :
           /\ pixel_ts_tracker[k][p] > 0
           /\ pixel_ts_tracker[k][p] % ref_interval = 0
           /\ \A kind \in EventKinds : pixel_ts_tracker[k][p] # kind.delta_t

----------------------------------------------------------------------------
(* Properties of the accessors and of write_multi_frame_bytes *)

\* frame indexes asked of px_at_frame and is_frame_filled
FrameIdxs == 0 .. 3

\* the frame at queue index idx of chunk k is fully filled
FilledAt(k, idx) == frames[k][idx + 1].filled_count = ArrayLen(frames[k][idx + 1].array)

\* C12: px_at_frame(y, x, c, frame_idx) returns the slot of the frame_idx-th
\* queued frame of the pixel's chunk whenever that frame exists, and returns
\* InvalidIndex (no panic) exactly when frame_idx is not less than the number of
\* frames queued for that chunk.
C12_PxAtFrameChecksQueue ==
    \A co \in Coords : \A frame_idx \in FrameIdxs :
        LET k == co.y \div chunk_rows
            r == px_at_frame(frames, co.y, co.x, 0, frame_idx)
        IN  IF frame_idx < Len(frames[k])
            THEN /\ r.res = "Ok"
                 /\ r.val = frames[k][frame_idx + 1].array[<<co.y - k * chunk_rows, co.x, 0>>]
            ELSE r.res = "InvalidIndex"

\* C13: get_frames_len is the number of frames queued to be written: it grows
\* when an ingest appends frames to a queue and shrinks when frames are popped.
C13_FramesLenFollowsQueue ==
    [][/\ (\E k \in Chunks : Len(frames'[k]) > Len(frames[k]))
           => get_frames_len(frames') > get_frames_len(frames)
       /\ (\E k \in Chunks : Len(frames'[k]) < Len(frames[k]))
           => get_frames_len(frames') < get_frames_len(frames)]_vars

\* C14: is_frame_filled(idx) is Err(InvalidIndex) whenever idx is not a queued
\* frame index in at least one chunk; otherwise it is Ok(true) exactly when the
\* frame at idx is fully filled in every chunk, and Ok(false) if not.
C14_IsFrameFilledResult ==
    \A idx \in FrameIdxs :
        is_frame_filled(frames, idx) =
            (IF \E k \in Chunks : Len(frames[k]) <= idx THEN "InvalidIndex"
             ELSE IF \A k \in Chunks : FilledAt(k, idx) THEN "Ok(true)"
             ELSE "Ok(false)")

\* the length of the run of frames, from the front, filled in every chunk
FilledRun ==
    LET runs == {n \in 0 .. Len(frames[0]) :
                    \A j \in 1 .. n : \A k \in Chunks :
                        /\ j <= Len(frames[k])
                        /\ FilledAt(k, j - 1)}
    IN  CHOOSE n \in runs : \A m \in runs : m <= n

\* C15: write_multi_frame_bytes terminates, pops exactly the maximal run of
\* frames at the front of the queues that are fully filled in every chunk, stops
\* at the first front frame that is not, returns the number of frames written
\* and adds that number to frames_written.
C15_WritesMaximalFilledRun ==
    [][last'.op = "write_multi_frame_bytes" =>
          /\ last'.n = FilledRun
          /\ frames_written' = frames_written + FilledRun
          /\ \A k \in Chunks :
                 frames'[k] = (IF FilledRun < Len(frames[k])
                               THEN SubSeq(frames[k], FilledRun + 1, Len(frames[k]))
                               ELSE <<EmptyFrame(k)>>)
          /\ \E k \in Chunks :
                 frames'[k][1].filled_count < ArrayLen(frames'[k][1].array)]_vars

C15_Witness ==
    /\ last.op = "write_multi_frame_bytes"
    /\ last.n >= 2
    /\ frames_written = last.n

----------------------------------------------------------------------------
(* Properties of the pixel tree *)

RECURSIVE EventShiftSum(_)
EventShiftSum(events) ==
    IF events = <<>> THEN 0
    ELSE D_SHIFT[Head(events).d + 1] + EventShiftSum(Tail(events))

\* C16: conservation: after pop_best_events, the sum of D_SHIFT[d] over the
\* popped events plus the integration held in the residual state equals the
\* total intensity that was integrated.
C16_Conservation ==
    tree_last.op = "pop_best_events" =>
        EventShiftSum(tree_last.events) + tree[1].integration = tree_last.total

\* C17: pop_best_events returns the pending events in root-to-leaf order of the
\* alt-chain, and the d values of the returned list are non-increasing.
C17_PoppedDNonIncreasing ==
    tree_last.op = "pop_best_events" =>
        /\ Len(tree_last.events) = Len(tree_last.before)
        /\ \A i \in 1 .. Len(tree_last.events) :
               tree_last.events[i] = tree_last.before[i].best_event
        /\ \A i \in 1 .. Len(tree_last.events) - 1 :
               tree_last.events[i].d >= tree_last.events[i + 1].d

\* C18: pop_best_events returns one event per node of the alt-chain and panics
\* if a node of the chain, the deepest included, has no pending best_event;
\* after a successful pop the root has no alt, no pending event, and the state
\* of the deepest node of the former chain.
C18_PopOnePerNode ==
    /\ pop_and_reset_state(tree).panic
           <=> (\E i \in 1 .. Len(tree) : tree[i].best_event = NoEvent)
    /\ tree_last.op = "pop_panic" =>
           \E i \in 1 .. Len(tree_last.before) : tree_last.before[i].best_event = NoEvent
    /\ tree_last.op = "pop_best_events" =>
           LET before == tree_last.before
           IN  /\ Len(tree_last.events) = Len(before)
               /\ \A i \in 1 .. Len(before) :
                      /\ before[i].best_event # NoEvent
                      /\ tree_last.events[i] = before[i].best_event
               /\ Len(tree) = 1
               /\ tree[1].best_event = NoEvent
               /\ StateOf(tree[1]) = StateOf(before[Len(before)])

C18_Witness ==
    /\ tree_last.op = "pop_best_events"
    /\ Len(tree_last.before) >= 2
    /\ StateOf(tree_last.before[1]) # StateOf(tree[1])

\* the call makes the node emit an event
Emits(node, intensity) == node.integration + intensity >= D_SHIFT[node.d + 1]

\* the call leaves nothing over for a new alt node, so that an alt is kept
KeepsAlt(node, intensity) == node.integration + intensity <= D_SHIFT[node.d + 1]

\* C19: between resets by pop_best_events a PixelNode's d never decreases: it
\* grows by exactly 1 when the node emits an event, and an integrate call that
\* does not overflow the node leaves its d unchanged.
C19_DGrowsByOnePerEvent ==
    [][\A input \in TreeInputs :
          TreeIntegrate(input) =>
              /\ tree'[1].d =
                     tree[1].d + (IF Emits(tree[1], input.intensity) THEN 1 ELSE 0)
              /\ (Len(tree) > 1 /\ KeepsAlt(tree[1], input.intensity)) =>
                     /\ Len(tree') = Len(tree)
                     /\ tree'[2].d =
                            tree[2].d
                            + (IF Emits(tree[2], input.intensity) THEN 1 ELSE 0)
                     /\ \A i \in 3 .. Len(tree) : tree'[i] = tree[i]]_vars

C19_Witness ==
    /\ tree_last.op = "integrate"
    /\ Len(tree_last.before) > 1
    /\ Len(tree) = Len(tree_last.before)
    /\ tree[1].d = tree_last.before[1].d
    /\ tree[2].d = tree_last.before[2].d + 1
    /\ \E i \in 1 .. Len(tree) : tree[i].d >= NewNode(1).d + 2

\* C20: after any sequence of integrate calls the depth of a PixelNode's
\* alt-chain is at most D_MAX.
C20_AltDepthBounded == Len(tree) - 1 <= D_MAX

C20_Witness ==
    /\ tree_last.op = "integrate"
    /\ Len(tree) - 1 >= 2

----------------------------------------------------------------------------
(* Properties of ingest_events_events *)

\* when ingest_events_events has returned, the sequence is in the state that
\* ingest_event reaches on the same events, chunk by chunk in either order
BatchMatchesSequential ==
    last.op = "ingest_events_events" =>
        /\ FrameState = batch.ref
        /\ FrameState = batch.ref_rev

\* C11: ingest_events_events, given one group of events per chunk, leaves the
\* sequence in the same state as ingest_event on the same events one by one,
\* for every interleaving of the per-chunk workers, and returns whether the
\* front frame of every chunk is filled.
C11_BatchAsSequentialAndReturn ==
    /\ BatchMatchesSequential
    /\ last.op = "ingest_events_events" => (last.ret <=> AllFrontFilled)

----------------------------------------------------------------------------
(* Properties of blocks and cubes *)

\* the event lies in the tile of the cube, whose origin is
\* (cube_idx_y, cube_idx_x), and has one of the three channels or none
InTile(self, event) ==
    /\ event.y \in self.cube_idx_y .. (self.cube_idx_y + BLOCK_SIZE_BIG - 1)
    /\ event.x \in self.cube_idx_x .. (self.cube_idx_x + BLOCK_SIZE_BIG - 1)
    /\ event.c \in {None} \cup Channels

\* the index of the event's pixel in a block of the cube
TileIdx(self, event) ==
    ((event.y - self.cube_idx_y) * BLOCK_SIZE_BIG) + (event.x - self.cube_idx_x)

\* the channel of the event
ChannelOf(event) == IF event.c = None THEN 0 ELSE event.c

\* a call of Cube3::set_event, however it ends
SetEventCall(event, overflow_checks) ==
    \/ CubeSetEvent(event, overflow_checks)
    \/ CubeSetEventPanic(event, overflow_checks)

\* C21: set_event of one event of the tile on a freshly constructed cube
\* succeeds, advances the open index of the event's channel at the event's
\* position from 0 to 1 and no other, and leaves the other two channels with
\* one block of empty slots and an index map of zeros
C21_FirstEventOnFreshCube ==
    [][\A event \in CubeEvents, overflow_checks \in BOOLEAN :
         (n_sets = 0 /\ InTile(cube, event)
                     /\ SetEventCall(event, overflow_checks))
         => /\ cube_last'.ret = "Ok"
            /\ cube'.block_idx_map[ChannelOf(event)] =
                  [i \in BlockIdxs |->
                      IF i = TileIdx(cube, event) THEN 1 ELSE 0]
            /\ \A c \in Channels \ {ChannelOf(event)} :
                  /\ cube'.blocks[c] = <<Block3_new>>
                  /\ cube'.block_idx_map[c] = [i \in BlockIdxs |-> 0]]_vars

\* C22: in the cube of the origin, an event at a pixel and channel that
\* already hold k >= 1 events succeeds and is stored in block k + 1 of the
\* channel, which is appended when it is missing
C22_FurtherEventsAppendBlocks ==
    [][\A event \in CubeEvents, overflow_checks \in BOOLEAN :
         (/\ cube.cube_idx_y = 0
          /\ cube.cube_idx_x = 0
          /\ InTile(cube, event)
          /\ cube.block_idx_map[ChannelOf(event)][TileIdx(cube, event)] >= 1
          /\ SetEventCall(event, overflow_checks))
         => LET c == ChannelOf(event)
                idx == TileIdx(cube, event)
                k == cube.block_idx_map[c][idx]
            IN  /\ cube_last'.ret = "Ok"
                /\ Len(cube'.blocks[c]) >= k + 1
                /\ cube'.blocks[c][k + 1].events[idx] = EventCoordless(event)]_vars

\* the slot of the event in the open block of its channel is occupied
OpenSlotOccupied(self, event) ==
    LET at == event_coord_to_block_idx(self, event)
    IN  /\ at.c \in Channels
        /\ at.idx \in BlockIdxs
        /\ self.block_idx_map[at.c][at.idx] < Len(self.blocks[at.c])
        /\ self.blocks[at.c][self.block_idx_map[at.c][at.idx] + 1]
               .events[at.idx] # NoEvent

\* C23: Block3::set_event on an occupied slot returns AlreadyExists with the
\* index and leaves the block as it was; Cube3::set_event that meets an
\* occupied slot returns the same error and changes neither an open index nor
\* a slot
C23_AlreadyExistsChangesNothing ==
    [][/\ \A c \in Channels, k \in 1 .. MaxSets, event \in BlockEvents,
            idx \in BlockIdxs :
            (/\ k <= Len(cube.blocks[c])
             /\ cube.blocks[c][k].events[idx] # NoEvent
             /\ BlockSetEvent(c, k, event, idx))
            => /\ cube_last'.ret = "AlreadyExists"
               /\ cube_last'.idx = idx
               /\ cube' = cube
       /\ \A event \in TileEvents :
            (OpenSlotOccupied(cube, event) /\ SetEventCall(event, TRUE))
            => /\ cube_last'.ret = "AlreadyExists"
               /\ cube_last'.idx = TileIdx(cube, event)
               /\ cube' = cube]_vars

\* Cube3::set_event has returned AlreadyExists
C23_Witness ==
    /\ cube_last.op = "set_event"
    /\ cube_last.ret = "AlreadyExists"
    /\ \E c \in Channels, i \in BlockIdxs :
          /\ cube.blocks[c][1].events[i] # NoEvent
          /\ cube.block_idx_map[c][i] = 0

\* C30: for an event of the cube's tile, the index computed by set_event is
\* (y - origin_y) * BLOCK_SIZE + (x - origin_x), it is the index of a slot,
\* and two pixels of the tile never share an index
C30_IndexRelativeToOrigin ==
    [][\A event \in CubeEvents, overflow_checks \in BOOLEAN :
         (InTile(cube, event) /\ SetEventCall(event, overflow_checks))
         => /\ cube_last'.idx = TileIdx(cube, event)
            /\ cube_last'.idx \in BlockIdxs
            /\ \A other \in CubeEvents :
                  (InTile(cube, other)
                     /\ <<other.y, other.x>> # <<event.y, event.x>>)
                  => event_coord_to_block_idx(cube, other).idx
                        # cube_last'.idx]_vars

----------------------------------------------------------------------------
(* Properties of the compression model and of the raw codec *)

\* C24: a decoder made with the encoder's delta_t_max and D_max, on the
\* flushed stream, decodes the k-th block as it was encoded: every slot is
\* empty or not as it was, with the same D and delta_t
C24_BlockRoundTrip ==
    [][(/\ coder.dec.delta_t_max = coder.enc.delta_t_max
        /\ coder.dec.d_max = coder.enc.d_max
        /\ coder.decoded < Len(coder.encoded)
        /\ DecodeBlock)
       => /\ coder'.ok
          /\ \A i \in BlockIdxs :
                cube'.blocks[0][1].events[i] =
                    coder.encoded[coder.decoded + 1].events[i]]_vars

\* two different blocks were encoded and both decoded, the second with an
\* empty slot and an occupied slot
C24_Witness ==
    /\ coder.ok
    /\ coder.decoded = 2
    /\ coder.dec.delta_t_max = coder.enc.delta_t_max
    /\ coder.encoded[1] # coder.encoded[2]
    /\ cube.blocks[0][1] = coder.encoded[2]
    /\ \E i, j \in BlockIdxs : /\ coder.encoded[2].events[i] = NoEvent
                               /\ coder.encoded[2].events[j] # NoEvent

\* the number read from big-endian bytes
RECURSIVE FromBigEndian(_)
FromBigEndian(bytes) ==
    IF bytes = <<>> THEN 0
    ELSE (FromBigEndian(SubSeq(bytes, 1, Len(bytes) - 1)) * 256)
           + bytes[Len(bytes)]

\* the bytes of a record: x, y, the channel when there are several, d, delta_t
RecordSize(header) == IF header.channels = 1 THEN 9 ELSE 10

\* C25: encode_event panics and writes nothing for an event whose x or y is
\* outside the plane, whose channel is not one of the declared channels, or
\* whose delta_t exceeds delta_t_max; any other event is written as one whole
\* record after the bytes already written
C25_EncodeEventValidates ==
    [][\A event \in RawEvents :
         (RawEncodeEvent(event) \/ RawEncodeEventPanic(event))
         => IF \/ event.x >= raw.header.width
               \/ event.y >= raw.header.height
               \/ (raw.header.channels = 1 /\ event.c # None)
               \/ (raw.header.channels > 1
                     /\ (event.c = None \/ event.c >= raw.header.channels))
               \/ event.delta_t > raw.header.delta_t_max
            THEN raw'.res = "panic" /\ raw'.bytes = raw.bytes
            ELSE LET n == Len(raw.bytes)
                     size == RecordSize(raw.header)
                     rec == SubSeq(raw'.bytes, n + 1, Len(raw'.bytes))
                 IN  /\ raw'.res = "Ok"
                     /\ Len(raw'.bytes) = n + size
                     /\ SubSeq(raw'.bytes, 1, n) = raw.bytes
                     /\ FromBigEndian(SubSeq(rec, 1, 2)) = event.x
                     /\ FromBigEndian(SubSeq(rec, 3, 4)) = event.y
                     /\ rec[size - 4] = event.d
                     /\ FromBigEndian(SubSeq(rec, size - 3, size))
                           = event.delta_t]_vars

\* a record was written, then an event was refused
C25_Witness ==
    /\ raw.res = "panic"
    /\ raw.n = 2
    /\ Len(raw.bytes) = RecordSize(raw.header)

----------------------------------------------------------------------------
(* Properties of ingest_event on the chunks, the frames and the trackers *)

\* the running timestamp of the event's pixel has advanced by delta_t at least,
\* as it has when the event was ingested
TimestampAdvanced(event) ==
    pixel_ts_tracker'[ChunkNum(event)][LocalPx(event)] >= TsAfter(event)

\* C26: an ingested event for a pixel of chunk k leaves the frame queue, the
\* frame-index offset, the per-pixel trackers and the filled flag of every
\* other chunk as they were, and frames_written too
C26_OtherChunksUntouched ==
    [][\A event \in Events :
          (last'.op = "ingest_event" /\ TimestampAdvanced(event)
                                     /\ IngestEvent(event)) =>
              /\ frames_written' = frames_written
              /\ \A j \in Chunks \ {event.y \div chunk_rows} :
                    /\ frames'[j] = frames[j]
                    /\ frame_idx_offsets'[j] = frame_idx_offsets[j]
                    /\ pixel_ts_tracker'[j] = pixel_ts_tracker[j]
                    /\ last_filled_tracker'[j] = last_filled_tracker[j]
                    /\ last_frame_intensity_tracker'[j] =
                           last_frame_intensity_tracker[j]
                    /\ chunk_filled_tracker'[j] = chunk_filled_tracker[j]]_vars

\* an event was ingested into one chunk while another chunk held frames, a
\* set filled flag and advanced trackers
C26_Witness ==
    /\ last.op = "ingest_event"
    /\ last.crossed
    /\ \E j, k \in Chunks :
          /\ j # k
          /\ chunk_filled_tracker[j]
          /\ \E p \in Pixels(j) : pixel_ts_tracker[j][p] > 0
          /\ \E p \in Pixels(k) : /\ pixel_ts_tracker[k][p] > 0
                                  /\ last_filled_tracker[k][p] >= 0
          /\ \A p \in Pixels(k) : last_filled_tracker[k][p] < 1
          /\ Len(frames[j]) # Len(frames[k])

\* the frame at position i of the queue, or an empty frame where the queue
\* ends before i
FrameOrEmpty(k, q, i) == IF i <= Len(q) THEN q[i] ELSE EmptyFrame(k)

\* an ingested event that moved the last-filled index of its pixel from p to
\* n > p has filled the pixel's empty slot, with the held intensity and one
\* more in filled_count, in the queued frames whose absolute index is in
\* (p, n], and has changed no other slot, no other count and no queued frame's
\* place
FillsCrossedFrames(event) ==
    LET k == ChunkNum(event)
        px == LocalPx(event)
        p == last_filled_tracker[k][px]
        n == last_filled_tracker'[k][px]
    IN  /\ Len(frames'[k]) >= Len(frames[k])
        /\ \A i \in 1 .. Len(frames'[k]) :
              LET old == FrameOrEmpty(k, frames[k], i)
                  index == frames_written + i - 1
                  fills == index > p /\ index <= n /\ old.array[px] = None
              IN  /\ frames'[k][i].array =
                        [q \in Pixels(k) |->
                            IF q = px /\ fills
                            THEN last_frame_intensity_tracker'[k][px]
                            ELSE old.array[q]]
                  /\ frames'[k][i].filled_count =
                        old.filled_count + (IF fills THEN 1 ELSE 0)

\* the last-filled index of the event's pixel moves up
MovesLastFilled(event) ==
    last_filled_tracker'[ChunkNum(event)][LocalPx(event)]
        > last_filled_tracker[ChunkNum(event)][LocalPx(event)]

\* C27 as stated: when an event moves a pixel's last-filled index from p to
\* n > p, the queue then holds a frame of absolute index n, and the queued
\* frames of (p, n] are filled as FillsCrossedFrames says
C27_FrameReachedIsQueued ==
    [][\A event \in Events :
          (last'.op = "ingest_event" /\ TsAfter(event) >= 1
                                     /\ MovesLastFilled(event)
                                     /\ IngestEvent(event))
          => /\ FillsCrossedFrames(event)
             /\ LET k == ChunkNum(event)
                    n == last_filled_tracker'[k][LocalPx(event)]
                IN  /\ n >= frames_written
                    /\ n - frames_written + 1 <= Len(frames'[k])]_vars

\* C27, amended: when an event moves a pixel's last-filled index from p to
\* n > p, the queue then holds a frame of absolute index n unless that frame
\* was popped already (n < frames_written), and the queued frames of (p, n]
\* are filled as FillsCrossedFrames says
C27_FrameReachedIsQueuedUnlessPopped ==
    [][\A event \in Events :
          (last'.op = "ingest_event" /\ MovesLastFilled(event)
                                     /\ IngestEvent(event))
          => /\ FillsCrossedFrames(event)
             /\ LET k == ChunkNum(event)
                    n == last_filled_tracker'[k][LocalPx(event)]
                IN  n >= frames_written
                       => n - frames_written + 1 <= Len(frames'[k])]_vars

\* an event has crossed several frames of a grown queue, one of them set
\* before by another pixel only, and an earlier frame keeps its values
C27_Witness ==
    /\ last.op = "ingest_event"
    /\ last.crossed
    /\ n_events >= 2
    /\ \E p1, p2 \in Pixels(0) :
          /\ p1 # p2
          /\ last_filled_tracker[0][p1] >= 2
          /\ last_filled_tracker[0][p1] - frames_written + 1 = Len(frames[0])
          /\ last_filled_tracker[0][p2] >= 0
          /\ last_filled_tracker[0][p2] < last_filled_tracker[0][p1]
          /\ frames[0][Len(frames[0])].array[p1] # None
          /\ frames[0][Len(frames[0])].array[p2] = None
          /\ frames[0][Len(frames[0]) - 1].array[p1] # None

\* C28: the last-intensity tracker of a pixel starts at zero and changes only
\* on an event with d # 0xFF that crosses into a later frame, to that event's
\* frame value; an event with d = 0xFF leaves it unchanged, fills the slots it
\* sets with it, and advances the running timestamp and the last-filled index
\* as any event does
C28_EmptyEventHoldsIntensity ==
    /\ \A k \in Chunks : \A p \in Pixels(k) :
          last_frame_intensity_tracker[k][p] = 0
    /\ [][\A event \in Events :
            (last'.op = "ingest_event" /\ TimestampAdvanced(event)
                                       /\ IngestEvent(event)) =>
                LET k == ChunkNum(event)
                    px == LocalPx(event)
                    held == last_frame_intensity_tracker[k][px]
                IN  /\ last_frame_intensity_tracker'[k][px] =
                          (IF MovesLastFilled(event) /\ event.d # EMPTY_D
                           THEN GetFrameValue(event.d, event.delta_t)
                           ELSE held)
                    /\ event.d = EMPTY_D =>
                          /\ last_frame_intensity_tracker'[k][px] = held
                          /\ pixel_ts_tracker'[k][px] >= TsAfter(event)
                          /\ pixel_ts_tracker'[k][px]
                                < TsAfter(event) + ref_interval
                          /\ last_filled_tracker'[k][px] =
                                (IF TargetFrame(event)
                                       > last_filled_tracker[k][px]
                                 THEN TargetFrame(event)
                                 ELSE last_filled_tracker[k][px])
                          /\ \A i \in 1 .. Len(frames'[k]) :
                                frames'[k][i].array[px]
                                   \in {FrameOrEmpty(k, frames[k], i).array[px],
                                        held}]_vars

\* after an event with d = 1 and delta_t = 1, an empty event with delta_t = 4
\* has filled the next frame of the pixel with the first event's value
C28_Witness ==
    /\ last.op = "ingest_event"
    /\ last.crossed
    /\ n_events = 2
    /\ frames_written = 0
    /\ \E k \in Chunks : \E p \in Pixels(k) :
          /\ last_frame_intensity_tracker[k][p] = GetFrameValue(1, 1)
          /\ pixel_ts_tracker[k][p] >= 5
          /\ last_filled_tracker[k][p] = 1
          /\ frames[k][1].array[p] = GetFrameValue(1, 1)
          /\ frames[k][2].array[p] = GetFrameValue(1, 1)

----------------------------------------------------------------------------
(* Properties of integrate on one node *)

\* floor(log2(x)) read off D_SHIFT, for 1 <= x < 2 * D_SHIFT[D_MAX]
LogOf(x) ==
    CHOOSE l \in 0 .. D_MAX : D_SHIFT[l + 1] <= x /\ x < 2 * D_SHIFT[l + 1]

\* the chain that begins at a node made by PixelNode::new(seed) into which
\* (intensity, time) is integrated: the node fires when the intensity reaches
\* D_SHIFT[d], and what is left over goes to a new node below, seeded with
\* the intensity
RECURSIVE ExpectedAlt(_, _, _)
ExpectedAlt(seed, intensity, time) ==
    LET d == LogOf(seed)
        filled_time == (time * D_SHIFT[d + 1]) \div intensity
        rest == intensity - D_SHIFT[d + 1]
    IN  IF intensity >= D_SHIFT[d + 1]
        THEN <<[d |-> d + 1, integration |-> intensity, delta_t |-> time,
                best_event |-> [d |-> d, delta_t |-> filled_time]]>>
             \o (IF rest > 0
                 THEN ExpectedAlt(intensity, rest, time - filled_time)
                 ELSE <<>>)
        ELSE <<[d |-> d, integration |-> intensity, delta_t |-> time,
                best_event |-> NoEvent]>>

\* C29: when integrate(intensity, time) brings the integration of the node
\* it is called on from below D_SHIFT[d] to D_SHIFT[d] or more, the node records
\* best_event {d, floor(delta_t + time * prop)} with
\* prop = (D_SHIFT[d] - integration) / intensity, its d grows by exactly 1, the
\* whole intensity and time are added to its state, and, when intensity is
\* left over, its alt chain is replaced by a new node with start d
\* floor(log2(intensity)) into which the rest of the intensity and of the time
\* is integrated in the same way
C29_NodeFires ==
    [][\A input \in TreeInputs :
          (/\ tree[1].d <= D_MAX
           /\ tree[1].integration < D_SHIFT[tree[1].d + 1]
           /\ tree[1].integration + input.intensity >= D_SHIFT[tree[1].d + 1]
           /\ TreeIntegrate(input))
          => LET fill == D_SHIFT[tree[1].d + 1] - tree[1].integration
                 filled_time == (input.time * fill) \div input.intensity
                 rest == input.intensity - fill
             IN  /\ tree'[1] =
                       [d |-> tree[1].d + 1,
                        integration |-> tree[1].integration + input.intensity,
                        delta_t |-> tree[1].delta_t + input.time,
                        best_event |->
                            [d |-> tree[1].d,
                             delta_t |-> tree[1].delta_t + filled_time]]
                 /\ rest > 0 =>
                       SubSeq(tree', 2, Len(tree')) =
                           ExpectedAlt(input.intensity, rest,
                                       input.time - filled_time)]_vars

\* a root below its threshold, with an alt, has fired and has a new alt that
\* fired as well and has an alt of its own
C29_Witness ==
    /\ tree_last.op = "integrate"
    /\ Len(tree_last.before) >= 2
    /\ tree_last.before[1].integration > 0
    /\ tree_last.before[1].integration < D_SHIFT[tree_last.before[1].d + 1]
    /\ tree[1].d = tree_last.before[1].d + 1
    /\ Len(tree) >= 3
    /\ tree[2].best_event # NoEvent

----------------------------------------------------------------------------
(* Properties of the queues under pops of single chunks, and of the indices *)

\* the step is the call ingest_event(event) and it returns
IngestReturns(event) ==
    last'.op = "ingest_event" /\ TimestampAdvanced(event) /\ IngestEvent(event)

\* the step is the call ingest_event(event) and it panics
IngestFails(event) == last'.op = "panic" /\ IngestEventPanic(event)

\* the slot of pixel px in the frame at position pos of chunk k's queue is set
\* by the step
SlotSetByStep(k, pos, px) ==
    /\ frames'[k][pos].array[px] # None
    /\ pos <= Len(frames[k]) => frames[k][pos].array[px] = None

\* C31: under any sequence of ingest_event, pop_next_frame, write_frame_bytes
\* and pop_next_frame_for_chunk calls, an event that advances its pixel to a
\* running timestamp of 1 or more never indexes the chunk's queue out of range
\* (the call does not panic), and every slot it sets is in a frame whose
\* absolute index (frames popped from the chunk + position) lies in the range
\* (last filled, reached] the event covers
C31_IndexedFrameIsQueued ==
    [][\A event \in Events :
          LET k == ChunkNum(event)
              prev == last_filled_tracker[k][LocalPx(event)]
              reached == FrameIdx(TsAfter(event))
          IN  TsAfter(event) >= 1 =>
                  /\ ~IngestFails(event)
                  /\ IngestReturns(event) =>
                         \A pos \in 1 .. Len(frames'[k]) :
                             SlotSetByStep(k, pos, LocalPx(event)) =>
                                 /\ frames_popped[k] + pos - 1 > prev
                                 /\ frames_popped[k] + pos - 1 <= reached]_vars

\* C32: in every reachable state is_frame_0_filled() is true exactly when
\* is_frame_filled(0) is Ok(true)
C32_Frame0FlagMatchesFrame0 ==
    is_frame_0_filled <=> (is_frame_filled(frames, 0) = "Ok(true)")

\* C33: for every chunk the queue length is frame_idx_offset minus the number
\* of frames popped from the chunk plus 1: frame_idx_offset is the absolute
\* index of the last queued frame
C33_OffsetIsLastQueuedIndex ==
    \A k \in Chunks : Len(frames[k]) = frame_idx_offsets[k] - frames_popped[k] + 1

\* chunk 0 has lost a frame to pop_next_frame_for_chunk alone and holds two
\* frames again, chunk 1 has been replenished by a pop of its only frame
C33_Witness ==
    /\ frames_popped[0] > frames_written
    /\ Len(frames[0]) >= 2
    /\ frames_popped[1] >= 1
    /\ Len(frames[1]) = 1
    /\ frame_idx_offsets[1] = frames_popped[1]

\* C34: with frames popped through pop_next_frame / write_frame_bytes only,
\* for every queued frame of absolute index j and every pixel p of its chunk
\* the slot of p is filled exactly when last_filled_tracker[p] >= j, and a
\* later frame of a queue never has a larger filled_count than an earlier one
C34_SlotFilledIffLastFilledReaches ==
    \A k \in Chunks :
        /\ \A pos \in 1 .. Len(frames[k]) : \A p \in Pixels(k) :
               (frames[k][pos].array[p] # None)
                   <=> (last_filled_tracker[k][p] >= frames_written + pos - 1)
        /\ \A pos \in 1 .. Len(frames[k]) - 1 :
               frames[k][pos + 1].filled_count <= frames[k][pos].filled_count

\* a frame has been popped, and a pixel's slot is filled in the front frame of
\* a queue and not in the frame that follows, which has fewer slots filled
C34_Witness ==
    /\ frames_written >= 1
    /\ Len(frames[0]) >= 2
    /\ frames[0][2].filled_count < frames[0][1].filled_count
    /\ \E p \in Pixels(0) :
           /\ frames[0][1].array[p] # None
           /\ frames[0][2].array[p] = None
           /\ last_filled_tracker[0][p] = frames_written

\* C35: on every ingest_event call, for any delta_t including 0, the
\* subtraction running timestamp - 1 does not underflow, and after the call
\* the ingested pixel's last-filled frame index is >= 0 (the debug assertion
\* at the end of ingest_event_for_chunk holds)
C35_NoUnderflowAndLastFilledSet ==
    [][\A event \in Events :
          (IngestReturns(event) \/ IngestFails(event)) =>
              /\ ~SubOverflows(TsAfter(event))
              /\ last_filled_tracker'[ChunkNum(event)][LocalPx(event)] >= 0]_vars

----------------------------------------------------------------------------
(* Properties of the pixel tree: pending events, the range of d, the alt child *)

\* C36: whenever the root holds a pending best_event after an integrate call,
\* pop_best_events completes without failing: every node of the alt chain,
\* the deepest included, holds a pending event
C36_RootEventMeansPopSucceeds ==
    (tree_last.op = "integrate" /\ tree[1].best_event # NoEvent) =>
        /\ ~pop_and_reset_state(tree).panic
        /\ \A i \in 1 .. Len(tree) : tree[i].best_event # NoEvent

\* C37: for every sequence of integrate calls with intensities in
\* (0, MAX_INTENSITY] on a node created with a start intensity in that range,
\* the d of every node stays <= D_MAX and no D_SHIFT lookup is out of the table
C37_DStaysInTable ==
    /\ \A i \in 1 .. Len(tree) : tree[i].d <= D_MAX
    /\ tree_last.op # "integrate_panic"

\* C38: when an integrate call does not create a new alt child (the root stays
\* below its threshold or reaches it exactly) and an alt child exists, the
\* same intensity and time are added to that child only: its d grows by 1
\* exactly when it reaches its threshold, the nodes below it are unchanged,
\* and no node is added even when the child goes past its threshold
C38_ExistingAltGetsMainOnly ==
    [][\A input \in TreeInputs :
          (/\ Len(tree) >= 2
           /\ tree[1].d <= D_MAX
           /\ tree[2].d <= D_MAX
           /\ tree[1].integration + input.intensity <= D_SHIFT[tree[1].d + 1]
           /\ TreeIntegrate(input))
          => /\ Len(tree') = Len(tree)
             /\ \A i \in 3 .. Len(tree) : tree'[i] = tree[i]
             /\ tree'[2].integration = tree[2].integration + input.intensity
             /\ tree'[2].delta_t = tree[2].delta_t + input.time
             /\ tree'[2].d =
                    IF tree[2].integration + input.intensity
                           >= D_SHIFT[tree[2].d + 1]
                    THEN tree[2].d + 1 ELSE tree[2].d]_vars

\* an integrate call on a chain of three nodes has left the root below its
\* threshold and taken the alt child past its own, and the chain is as long as
\* it was
C38_Witness ==
    /\ tree_last.op = "integrate"
    /\ Len(tree_last.before) >= 3
    /\ Len(tree) = Len(tree_last.before)
    /\ tree[1].d = tree_last.before[1].d
    /\ tree[2].d = tree_last.before[2].d + 1
    /\ tree[2].integration > D_SHIFT[tree_last.before[2].d + 1]
    /\ tree[3] = tree_last.before[3]

----------------------------------------------------------------------------
(* Properties of the open-index maps of a cube *)

\* the blocks of channel c (counted from 0) that hold an event at idx
BlocksHolding(c, idx) ==
    {k \in 0 .. Len(cube.blocks[c]) - 1 : cube.blocks[c][k + 1].events[idx] # NoEvent}

\* C39: for every channel and position idx of a cube, after any sequence of
\* Cube3::set_event calls, the open index of idx is the number of events stored
\* at idx and is at most the length of the channel's block vector, block k of
\* the channel holds an event at idx exactly when k < the open index, and
\* set_event has never returned AlreadyExists
C39_OpenIndexCountsStoredEvents ==
    /\ \A c \in Channels : \A idx \in BlockIdxs :
           /\ cube.block_idx_map[c][idx] = Cardinality(BlocksHolding(c, idx))
           /\ cube.block_idx_map[c][idx] <= Len(cube.blocks[c])
           /\ \A k \in 0 .. Len(cube.blocks[c]) - 1 :
                  (k \in BlocksHolding(c, idx)) <=> (k < cube.block_idx_map[c][idx])
    /\ cube_last.ret # "AlreadyExists"

\* two events have been stored, at two positions of one channel
C39_Witness ==
    /\ n_sets = 2
    /\ cube_last.ret = "Ok"
    /\ \E c \in Channels : \E i, j \in BlockIdxs :
           /\ i # j
           /\ cube.block_idx_map[c][i] = 1
           /\ cube.block_idx_map[c][j] = 1
           /\ cube.blocks[c][1].events[i] # NoEvent
           /\ cube.blocks[c][1].events[j] # NoEvent

====
